---------------------------- MODULE Spec2Model ----------------------------
(***************************************************************************)
(* Session state machine of the e-mail assistant (telegram_bot/bot.py):    *)
(* EmailBot.process_email_command with its per-user context, the utterance *)
(* normalizer, the local send / cancel / read / draft resolution and the   *)
(* deferral to the intent classifier and the MCP mail tools.               *)
(*                                                                         *)
(* Python strings are sequences of one-character strings, so that          *)
(* substring tests (`in`), regular expressions and str.split are computed  *)
(* character by character as the interpreter computes them.                *)
(* Optional values are sequences of length at most one: None is <<>>.      *)
(***************************************************************************)
EXTENDS Integers, Sequences, FiniteSets, TLC

\* ------------------------------------------------------------------------
\* Bounds
\* ------------------------------------------------------------------------
\* Largest number of summaries a list/search tool call returns.
MaxResults == 2

\* ------------------------------------------------------------------------
\* Python values
\* ------------------------------------------------------------------------
None == <<>>
Some(v) == <<v>>
PyInt(n) == [int |-> n]
PyStr(s) == [str |-> s]

\* Spelling of every word the modelled utterances and phrase tables use.
Chars ==
    "send" :> <<"s", "e", "n", "d">> @@
    "reply" :> <<"r", "e", "p", "l", "y">> @@
    "it" :> <<"i", "t">> @@
    "yes" :> <<"y", "e", "s">> @@
    "cancel" :> <<"c", "a", "n", "c", "e", "l">> @@
    "the" :> <<"t", "h", "e">> @@
    "draft" :> <<"d", "r", "a", "f", "t">> @@
    "read" :> <<"r", "e", "a", "d">> @@
    "email" :> <<"e", "m", "a", "i", "l">> @@
    "number" :> <<"n", "u", "m", "b", "e", "r">> @@
    "two" :> <<"t", "w", "o">> @@
    "2" :> <<"2">> @@
    "1" :> <<"1">> @@
    "3" :> <<"3">> @@
    "5" :> <<"5">> @@
    "0" :> <<"0">> @@
    "check" :> <<"c", "h", "e", "c", "k">> @@
    "my" :> <<"m", "y">> @@
    "gmail" :> <<"g", "m", "a", "i", "l">> @@
    "icloud" :> <<"i", "c", "l", "o", "u", "d">> @@
    "yesterday" :> <<"y", "e", "s", "t", "e", "r", "d", "a", "y">> @@
    "for" :> <<"f", "o", "r">> @@
    "third" :> <<"t", "h", "i", "r", "d">> @@
    "one" :> <<"o", "n", "e">> @@
    "saying" :> <<"s", "a", "y", "i", "n", "g">> @@
    "hello" :> <<"h", "e", "l", "l", "o">> @@
    "a" :> <<"a">> @@
    "to" :> <<"t", "o">> @@
    "this" :> <<"t", "h", "i", "s">> @@
    "confirm" :> <<"c", "o", "n", "f", "i", "r", "m">> @@
    "go" :> <<"g", "o">> @@
    "ahead" :> <<"a", "h", "e", "a", "d">> @@
    "now" :> <<"n", "o", "w">> @@
    "that" :> <<"t", "h", "a", "t">> @@
    "respond" :> <<"r", "e", "s", "p", "o", "n", "d">> @@
    "write" :> <<"w", "r", "i", "t", "e">> @@
    "back" :> <<"b", "a", "c", "k">> @@
    "compose" :> <<"c", "o", "m", "p", "o", "s", "e">> @@
    "open" :> <<"o", "p", "e", "n">> @@
    "mail" :> <<"m", "a", "i", "l">> @@
    "me" :> <<"m", "e">> @@
    "please" :> <<"p", "l", "e", "a", "s", "e">> @@
    "show" :> <<"s", "h", "o", "w">> @@
    "get" :> <<"g", "e", "t">> @@
    "fetch" :> <<"f", "e", "t", "c", "h">> @@
    "load" :> <<"l", "o", "a", "d">> @@
    "an" :> <<"a", "n">> @@
    "three" :> <<"t", "h", "r", "e", "e">> @@
    "four" :> <<"f", "o", "u", "r">> @@
    "five" :> <<"f", "i", "v", "e">> @@
    "six" :> <<"s", "i", "x">> @@
    "seven" :> <<"s", "e", "v", "e", "n">> @@
    "eight" :> <<"e", "i", "g", "h", "t">> @@
    "nine" :> <<"n", "i", "n", "e">> @@
    "ten" :> <<"t", "e", "n">> @@
    "first" :> <<"f", "i", "r", "s", "t">> @@
    "second" :> <<"s", "e", "c", "o", "n", "d">> @@
    "fourth" :> <<"f", "o", "u", "r", "t", "h">> @@
    "fifth" :> <<"f", "i", "f", "t", "h">> @@
    "sixth" :> <<"s", "i", "x", "t", "h">> @@
    "seventh" :> <<"s", "e", "v", "e", "n", "t", "h">> @@
    "eighth" :> <<"e", "i", "g", "h", "t", "h">> @@
    "ninth" :> <<"n", "i", "n", "t", "h">> @@
    "tenth" :> <<"t", "e", "n", "t", "h">> @@
    "too" :> <<"t", "o", "o">> @@
    "tu" :> <<"t", "u">> @@
    "ate" :> <<"a", "t", "e">> @@
    "message" :> <<"m", "e", "s", "s", "a", "g", "e">> @@
    "with" :> <<"w", "i", "t", "h">> @@
    "tell" :> <<"t", "e", "l", "l">> @@
    "them" :> <<"t", "h", "e", "m">> @@
    "#" :> <<"#">> @@
    "Read" :> <<"R", "e", "a", "d">> @@
    "Two" :> <<"T", "w", "o">> @@
    "john" :> <<"j", "o", "h", "n">> @@
    "4" :> <<"4">> @@
    "6" :> <<"6">> @@
    "7" :> <<"7">> @@
    "8" :> <<"8">> @@
    "and" :> <<"a", "n", "d">> @@
    "confirmation" :> <<"c", "o", "n", "f", "i", "r", "m", "a", "t", "i", "o", "n">> @@
    "9" :> <<"9">> @@
    "10" :> <<"1", "0">> @@
    "18c2f" :> <<"1", "8", "c", "2", "f">> @@
    "1890" :> <<"1", "8", "9", "0">> @@
    "17a0b" :> <<"1", "7", "a", "0", "b">> @@
    "101" :> <<"1", "0", "1">> @@
    "102" :> <<"1", "0", "2">> @@
    "103" :> <<"1", "0", "3">> @@
    "Ann" :> <<"A", "n", "n">> @@
    "<ann@x.com>" :> <<"<", "a", "n", "n", "@", "x", ".", "c", "o", "m", ">">> @@
    "bob@y.org" :> <<"b", "o", "b", "@", "y", ".", "o", "r", "g">> @@
    "Cy" :> <<"C", "y">> @@
    "<>" :> <<"<", ">">> @@
    "Re:" :> <<"R", "e", ":">> @@
    "RE:" :> <<"R", "E", ":">> @@
    "re:" :> <<"r", "e", ":">> @@
    "Lunch" :> <<"L", "u", "n", "c", "h">> @@
    "Bill" :> <<"B", "i", "l", "l">> @@
    "Hi" :> <<"H", "i">> @@
    "Trip" :> <<"T", "r", "i", "p">> @@
    "Memo" :> <<"M", "e", "m", "o">> @@
    "Note" :> <<"N", "o", "t", "e">> @@
    "<p>see</p>" :> <<"<", "p", ">", "s", "e", "e", "<", "/", "p", ">">> @@
    "you" :> <<"y", "o", "u">> @@
    "soon" :> <<"s", "o", "o", "n">> @@
    "<b>pay</b>" :> <<"<", "b", ">", "p", "a", "y", "<", "/", "b", ">">> @@
    "thanks" :> <<"t", "h", "a", "n", "k", "s">> @@
    "ok" :> <<"o", "k">> @@
    "sure" :> <<"s", "u", "r", "e">> @@
    "regards" :> <<"r", "e", "g", "a", "r", "d", "s">>

Digits == {"0", "1", "2", "3", "4", "5", "6", "7", "8", "9"}
LowerLetters ==
    {"a", "b", "c", "d", "e", "f", "g", "h", "i", "j", "k", "l", "m",
     "n", "o", "p", "q", "r", "s", "t", "u", "v", "w", "x", "y", "z"}
UpperToLower ==
    "A" :> "a" @@ "B" :> "b" @@ "C" :> "c" @@ "D" :> "d" @@ "E" :> "e" @@
    "F" :> "f" @@ "G" :> "g" @@ "H" :> "h" @@ "I" :> "i" @@ "J" :> "j" @@
    "K" :> "k" @@ "L" :> "l" @@ "M" :> "m" @@ "N" :> "n" @@ "O" :> "o" @@
    "P" :> "p" @@ "Q" :> "q" @@ "R" :> "r" @@ "S" :> "s" @@ "T" :> "t" @@
    "U" :> "u" @@ "V" :> "v" @@ "W" :> "w" @@ "X" :> "x" @@ "Y" :> "y" @@
    "Z" :> "z"

IsDigit(c) == c \in Digits
IsSpace(c) == c = " "
\* \w of the re module
WordChars == Digits \cup LowerLetters \cup DOMAIN UpperToLower \cup {"_"}
IsWordChar(c) == c \in WordChars

DigitVal == "0" :> 0 @@ "1" :> 1 @@ "2" :> 2 @@ "3" :> 3 @@ "4" :> 4 @@
            "5" :> 5 @@ "6" :> 6 @@ "7" :> 7 @@ "8" :> 8 @@ "9" :> 9

\* int(s) of a string of decimal digits
RECURSIVE int(_)
int(s) == IF s = <<>> THEN 0 ELSE 10 * int(SubSeq(s, 1, Len(s) - 1)) + DigitVal[s[Len(s)]]

\* str(n) of a natural number
RECURSIVE str(_)
str(n) ==
    LET d == CHOOSE c \in Digits : DigitVal[c] = n % 10
    IN  IF n < 10 THEN <<d>> ELSE str(n \div 10) \o <<d>>

\* The text of a sequence of words separated by single spaces.
RECURSIVE Phrase(_)
Phrase(ws) ==
    IF ws = <<>> THEN <<>>
    ELSE IF Len(ws) = 1 THEN Chars[ws[1]]
    ELSE Chars[ws[1]] \o <<" ">> \o Phrase(Tail(ws))

\* str.lower()
lower(s) == [i \in 1..Len(s) |-> IF s[i] \in DOMAIN UpperToLower THEN UpperToLower[s[i]] ELSE s[i]]

\* str.strip()
RECURSIVE lstrip(_)
lstrip(s) == IF s # <<>> /\ IsSpace(s[1]) THEN lstrip(Tail(s)) ELSE s
RECURSIVE rstrip(_)
rstrip(s) == IF s # <<>> /\ IsSpace(s[Len(s)]) THEN rstrip(SubSeq(s, 1, Len(s) - 1)) ELSE s
strip(s) == rstrip(lstrip(s))

\* t in s, for strings
StartsAt(s, t, i) == i + Len(t) - 1 <= Len(s) /\ SubSeq(s, i, i + Len(t) - 1) = t
Contains(s, t) == \E i \in 1..(Len(s) + 1) : StartsAt(s, t, i)
\* any(t in s for t in phrases), phrases given as sequences of words
ContainsAny(s, phrases) == \E p \in phrases : Contains(s, Phrase(p))

\* Index of the last character of the maximal run that starts at i of
\* characters in Class (member = TRUE) or outside Class (member = FALSE).
RECURSIVE RunEnd(_, _, _, _)
RunEnd(Class, member, s, i) ==
    IF i < Len(s) /\ ((s[i + 1] \in Class) = member)
    THEN RunEnd(Class, member, s, i + 1)
    ELSE i

\* str.split(): the maximal runs of non-whitespace characters
RECURSIVE SplitFrom(_, _)
SplitFrom(s, i) ==
    IF i > Len(s) THEN <<>>
    ELSE IF IsSpace(s[i]) THEN SplitFrom(s, i + 1)
    ELSE LET j == RunEnd({" "}, FALSE, s, i)
         IN  <<SubSeq(s, i, j)>> \o SplitFrom(s, j + 1)
split(s) == SplitFrom(s, 1)

\* ------------------------------------------------------------------------
\* EmailBot helpers
\* ------------------------------------------------------------------------
\* The substitution table of _normalize_command: number word, digits.
number_words ==
    { <<"one", "1">>, <<"two", "2">>, <<"three", "3">>, <<"four", "4">>,
      <<"five", "5">>, <<"six", "6">>, <<"seven", "7">>, <<"eight", "8">>,
      <<"nine", "9">>, <<"ten", "10">>, <<"first", "1">>, <<"second", "2">>,
      <<"third", "3">>, <<"fourth", "4">>, <<"fifth", "5">>, <<"sixth", "6">>,
      <<"seventh", "7">>, <<"eighth", "8">>, <<"ninth", "9">>, <<"tenth", "10">>,
      <<"to", "2">>, <<"too", "2">>, <<"tu", "2">>, <<"for", "4">>, <<"ate", "8">> }

\* SubNumberWords whose patterns lack the word boundaries: a number word is
\* replaced wherever it starts, inside a longer word too
RECURSIVE SubNumberWords_NoBoundary(_, _)
SubNumberWords_NoBoundary(s, i) ==
    IF i > Len(s) THEN <<>>
    ELSE LET hit == {p \in number_words : StartsAt(s, Chars[p[1]], i)}
             first == CHOOSE p \in hit : \A q \in hit : Len(Chars[p[1]]) <= Len(Chars[q[1]])
         IN  IF hit = {} THEN <<s[i]>> \o SubNumberWords_NoBoundary(s, i + 1)
             ELSE Chars[first[2]] \o SubNumberWords_NoBoundary(s, i + Len(Chars[first[1]]))

\* re.sub(r'\bWORD\b', digits, s) for every entry of number_words: a
\* pattern matches exactly a maximal run of word characters equal to WORD,
\* and no replacement produces a text another pattern matches.
RECURSIVE SubNumberWords(_, _)
SubNumberWords(s, i) ==
    IF i > Len(s) THEN <<>>
    ELSE IF ~IsWordChar(s[i]) THEN <<s[i]>> \o SubNumberWords(s, i + 1)
    ELSE LET j == RunEnd(WordChars, TRUE, s, i)
             run == SubSeq(s, i, j)
             hit == {p \in number_words : Chars[p[1]] = run}
         IN  (IF hit = {} THEN run ELSE Chars[(CHOOSE p \in hit : TRUE)[2]])
             \o SubNumberWords(s, j + 1)

normalize_command(command) == SubNumberWords(lower(command), 1)

\* _word_to_number: the number of a number word, None for any other word.
word_to_num ==
    { <<"one", 1>>, <<"two", 2>>, <<"three", 3>>, <<"four", 4>>, <<"five", 5>>,
      <<"six", 6>>, <<"seven", 7>>, <<"eight", 8>>, <<"nine", 9>>, <<"ten", 10>>,
      <<"first", 1>>, <<"second", 2>>, <<"third", 3>>, <<"fourth", 4>>,
      <<"fifth", 5>>, <<"sixth", 6>>, <<"seventh", 7>>, <<"eighth", 8>>,
      <<"ninth", 9>>, <<"tenth", 10>> }
word_to_number(word) ==
    LET hit == {p \in word_to_num : Chars[p[1]] = lower(word)}
    IN  IF hit = {} THEN None ELSE Some((CHOOSE p \in hit : TRUE)[2])

\* The first word of words that is not a skip word and is a number word
\* (the for loops over command_lower.split()).
RECURSIVE FirstWordNumber(_, _)
FirstWordNumber(words, skip_words) ==
    IF words = <<>> THEN None
    ELSE IF \E w \in skip_words : Chars[w] = Head(words)
         THEN FirstWordNumber(Tail(words), skip_words)
    ELSE IF word_to_number(Head(words)) # None
         THEN word_to_number(Head(words))
    ELSE FirstWordNumber(Tail(words), skip_words)

\* re.search(r'\b(\d+)\b', s): the leftmost maximal run of digits with a
\* word boundary on both sides, as an integer.
RECURSIVE SearchDigits(_, _)
SearchDigits(s, i) ==
    IF i > Len(s) THEN None
    ELSE IF IsDigit(s[i]) /\ (i = 1 \/ ~IsWordChar(s[i - 1]))
         THEN LET j == RunEnd(Digits, TRUE, s, i)
              IN  IF j = Len(s) \/ ~IsWordChar(s[j + 1])
                  THEN Some(int(SubSeq(s, i, j)))
                  ELSE SearchDigits(s, j + 1)
    ELSE SearchDigits(s, i + 1)
digit_match(s) == SearchDigits(s, 1)

\* re.search(r'(?:email|number|mail|#)\s*(\d+)', s)
explicit_prefixes == {"email", "number", "mail", "#"}
\* the digits group when the pattern matches at i, None otherwise
ExplicitAt(s, i) ==
    LET pre == {p \in explicit_prefixes : StartsAt(s, Chars[p], i)}
    IN  IF pre = {} THEN None
        ELSE LET p == CHOOSE q \in pre : TRUE
                 k == i + Len(Chars[p])
                 d == IF k <= Len(s) /\ IsSpace(s[k])
                      THEN RunEnd({" "}, TRUE, s, k) + 1 ELSE k
             IN  IF d <= Len(s) /\ IsDigit(s[d])
                 THEN Some(int(SubSeq(s, d, RunEnd(Digits, TRUE, s, d))))
                 ELSE None
RECURSIVE SearchExplicit(_, _)
SearchExplicit(s, i) ==
    IF i > Len(s) THEN None
    ELSE IF ExplicitAt(s, i) # None THEN ExplicitAt(s, i)
    ELSE SearchExplicit(s, i + 1)
explicit_match(s) == SearchExplicit(s, 1)

\* re.search(r'(?:saying|that|message|reply with|respond with|tell them|write)\s+(.+)', s)
hint_prefixes ==
    { <<"saying">>, <<"that">>, <<"message">>, <<"reply", "with">>,
      <<"respond", "with">>, <<"tell", "them">>, <<"write">> }
HintAt(s, i) ==
    LET pre == {p \in hint_prefixes : StartsAt(s, Phrase(p), i)}
        ok(p) == LET k == i + Len(Phrase(p))
                 IN  k <= Len(s) /\ IsSpace(s[k]) /\ RunEnd({" "}, TRUE, s, k) < Len(s)
    IN  IF \E p \in pre : ok(p)
        THEN LET p == CHOOSE q \in pre : ok(q)
                 k == i + Len(Phrase(p))
             IN  Some(SubSeq(s, RunEnd({" "}, TRUE, s, k) + 1, Len(s)))
        ELSE None
RECURSIVE SearchHint(_, _)
SearchHint(s, i) ==
    IF i > Len(s) THEN None
    ELSE IF HintAt(s, i) # None THEN HintAt(s, i)
    ELSE SearchHint(s, i + 1)
hint_match(s) == SearchHint(s, 1)

\* _parse_recipient: the text between the leftmost '<' and the nearest
\* following '>' with at least one character between them (re.search of
\* r'<(.+?)>'), the stripped header when there is none.
RECURSIVE FirstIndexOf(_, _, _)
\* least j >= i with s[j] = c, 0 when there is none
FirstIndexOf(s, c, i) ==
    IF i > Len(s) THEN 0
    ELSE IF s[i] = c THEN i
    ELSE FirstIndexOf(s, c, i + 1)
RECURSIVE SearchAngle(_, _)
SearchAngle(s, i) ==
    LET a == FirstIndexOf(s, "<", i)
        b == IF a = 0 THEN 0 ELSE FirstIndexOf(s, ">", a + 2)
    IN  IF a = 0 THEN None
        ELSE IF b # 0 THEN Some(SubSeq(s, a + 1, b - 1))
        ELSE SearchAngle(s, a + 1)
parse_recipient(from_header) ==
    LET email_match == SearchAngle(from_header, 1)
    IN  IF email_match # None THEN email_match[1]
        ELSE IF Contains(from_header, <<"@">>) THEN strip(from_header)
        ELSE strip(from_header)

\* Longest prefix kept by _strip_html.
StripLimit == 800

\* re.sub(r'<[^>]+>', ' ', text)
RECURSIVE SubTags(_, _)
SubTags(s, i) ==
    IF i > Len(s) THEN <<>>
    ELSE LET j == IF s[i] = "<" THEN FirstIndexOf(s, ">", i + 1) ELSE 0
         IN  IF j >= i + 2 THEN <<" ">> \o SubTags(s, j + 1)
             ELSE <<s[i]>> \o SubTags(s, i + 1)
\* re.sub(r'\s+', ' ', text)
RECURSIVE SubSpaces(_, _)
SubSpaces(s, i) ==
    IF i > Len(s) THEN <<>>
    ELSE IF IsSpace(s[i]) THEN <<" ">> \o SubSpaces(s, RunEnd({" "}, TRUE, s, i) + 1)
    ELSE <<s[i]>> \o SubSpaces(s, i + 1)
\* _strip_html (html.unescape changes nothing in a text without '&')
strip_html(text) ==
    IF text = <<>> THEN text
    ELSE LET clean == strip(SubSpaces(SubTags(text, 1), 1))
         IN  SubSeq(clean, 1, IF Len(clean) < StripLimit THEN Len(clean) ELSE StripLimit)

\* str.isdigit()
isdigit(s) == s # <<>> /\ \A i \in 1..Len(s) : IsDigit(s[i])

\* ------------------------------------------------------------------------
\* The mail providers behind the MCP server
\* ------------------------------------------------------------------------
Text(ws) == Phrase(ws)

\* Messages of the REST (Gmail) mailbox, most recent first.  Ids are
\* opaque hexadecimal strings; one of them happens to hold digits only.
GmailBox ==
    << [id |-> Chars["18c2f"], from |-> Text(<<"Ann", "<ann@x.com>">>),
        subject |-> Text(<<"Lunch">>), body |-> Text(<<"<p>see</p>", "you">>)],
       [id |-> Chars["1890"], from |-> Text(<<"bob@y.org">>),
        subject |-> Text(<<"Re:", "Trip">>), body |-> Text(<<"ok">>)],
       [id |-> Chars["17a0b"], from |-> Text(<<"Cy">>),
        subject |-> Text(<<"RE:", "Memo">>), body |-> Text(<<"<b>pay</b>">>)] >>

\* Messages of the IMAP (iCloud) mailbox, most recent first.  Ids are
\* message sequence numbers.
ICloudBox ==
    << [id |-> Chars["1890"], from |-> Text(<<"Cy", "<>", "<ann@x.com>">>),
        subject |-> Text(<<"Bill">>), body |-> Text(<<"thanks">>)],
       [id |-> Chars["102"], from |-> Text(<<"bob@y.org">>),
        subject |-> Text(<<"re:", "Note">>), body |-> Text(<<"sure">>)] >>

\* Values a tool call returns (json.loads of the server's text content).
PyList(items) == [type |-> "list", items |-> items]
PyDict(d) == [type |-> "dict", dict |-> d]
PyNone == [type |-> "none"]
isinstance(v, t) == v.type = t
\* HasError that never finds the error key
HasError_MissesError(v) == FALSE

\* isinstance(result, dict) and "error" in result
HasError(v) == isinstance(v, "dict") /\ "error" \in DOMAIN v.dict

ProviderErrors == {"provider error"}
ErrorResults == {PyDict([error |-> e]) : e \in ProviderErrors}

\* The summary list_emails builds for one message.
Summary(m) == [id |-> m.id, from |-> m.from, subject |-> m.subject]

\* list_emails / search_emails: the summaries of the k most recent matching
\* messages, for any k up to max_results (k = 0 when nothing matches), or
\* the error object of the except clause.
ListResults(box, max_results) ==
    {PyList([i \in 1..k |-> Summary(box[i])]) :
        k \in {j \in 0..Len(box) : j <= max_results /\ j <= MaxResults}}
    \cup ErrorResults

\* seq[-n:], the slice email_ids[-max_results:] is taken with: -0 is 0, so
\* for n = 0 the slice is the whole sequence
SliceLast(seq, n) ==
    IF n = 0 THEN seq
    ELSE IF n > 0
    THEN SubSeq(seq, (IF Len(seq) > n THEN Len(seq) - n + 1 ELSE 1), Len(seq))
    ELSE SubSeq(seq, (IF -n < Len(seq) THEN -n ELSE Len(seq)) + 1, Len(seq))

\* seq[::-1]
Reversed(seq) == [i \in 1..Len(seq) |-> seq[Len(seq) + 1 - i]]

\* iCloudHandler.list_emails / search_emails_by_sender: the search gives
\* the ids of the n messages of the mailbox oldest first; the summaries of
\* email_ids[-max_results:][::-1] are returned, or the error object of the
\* except clause.
ICloudListResults(box, max_results) ==
    {PyList(LET email_ids == Reversed(SubSeq(box, 1, n))
                recent == Reversed(SliceLast(email_ids, max_results))
            IN  [i \in 1..Len(recent) |-> Summary(recent[i])]) :
        n \in {j \in 0..Len(box) : j <= MaxResults}}
    \cup ErrorResults

BoxMessages(box) == {box[i] : i \in 1..Len(box)}
ReadResults(box, email_id) ==
    {PyDict(m) : m \in {b \in BoxMessages(box) : b.id = email_id}} \cup ErrorResults

SendResults(sent) == {PyDict(sent)} \cup ErrorResults

ToolNames ==
    {"list_gmail_emails", "list_icloud_emails", "read_gmail_email",
     "read_icloud_email", "send_gmail_email", "send_icloud_email",
     "search_gmail", "search_icloud", "draft_gmail_reply", "draft_icloud_reply"}

Arg(arguments, key, default) ==
    IF key \in DOMAIN arguments THEN arguments[key] ELSE default

\* server.call_tool: the results the server can return for a tool call.
\* A missing required argument, a tool without a handler method and an
\* unknown tool name all end in an error object.
ServerResults(name, arguments) ==
    LET has(keys) == keys \subseteq DOMAIN arguments
    IN  CASE name = "list_gmail_emails" ->
                ListResults(GmailBox, Arg(arguments, "max_results", 10))
          [] name = "list_icloud_emails" ->
                ICloudListResults(ICloudBox, Arg(arguments, "max_results", 10))
          [] name = "read_gmail_email" /\ has({"email_id"}) ->
                ReadResults(GmailBox, arguments.email_id)
          [] name = "read_icloud_email" /\ has({"email_id"}) ->
                ReadResults(ICloudBox, arguments.email_id)
          [] name = "send_gmail_email" /\ has({"to", "subject", "body"}) ->
                SendResults([status |-> "sent", message_id |-> "m1"])
          [] name = "send_icloud_email" /\ has({"to", "subject", "body"}) ->
                SendResults([status |-> "sent", to |-> arguments.to])
          [] name = "search_gmail" /\ has({"query"}) ->
                ListResults(GmailBox, Arg(arguments, "max_results", 20))
          [] name = "search_icloud" /\ has({"sender"}) ->
                ICloudListResults(ICloudBox, Arg(arguments, "max_results", 20))
          [] name \in {"draft_gmail_reply", "draft_icloud_reply"}
                /\ has({"email_id", "reply_body"}) ->
                \* neither handler class has a draft_reply method: the
                \* AttributeError is caught by the except clause
                {PyDict([error |-> "no attribute draft_reply"])}
          [] OTHER -> ErrorResults

\* json.dumps and json.loads: the JSON text of a value, and the value a
\* JSON text stands for.
dumps(v) == [json |-> v]
loads(text) == text.json

\* server.call_tool: the list of contents returned for a tool call, one
\* text content with the JSON text of the result.
TextContent(v) == [type |-> "text", text |-> dumps(v)]
\* call_tool without the else branch and without the except clause: no
\* content for a tool or an argument map the routing does not know
call_tool_NoExcept(name, arguments) ==
    IF ServerResults(name, arguments) = ErrorResults
       /\ name \notin {"list_gmail_emails", "list_icloud_emails"}
       /\ DOMAIN arguments \in {{}, {"email_id"}}
    THEN {<<>>}
    ELSE {<<TextContent(v)>> : v \in ServerResults(name, arguments)}

call_tool(name, arguments) == {<<TextContent(v)>> : v \in ServerResults(name, arguments)}

\* MCPEmailClient.call_tool: the parsed result, None when the reply has no
\* content, or an exception.
Returned(v) == [raised |-> FALSE, value |-> v]
Raised == [raised |-> TRUE]
CallToolOutcomes(tool_name, kwargs) ==
    {Returned(v) : v \in ServerResults(tool_name, kwargs) \cup {PyNone}} \cup {Raised}

\* ------------------------------------------------------------------------
\* Inputs
\* ------------------------------------------------------------------------
Users == {"u1"}

\* The raw utterances handled, each a sequence of words.
Utterances ==
    { <<"send", "it">>, <<"yes">>, <<"cancel">>, <<"cancel", "the", "draft">>,
      <<"read", "email", "1">>, <<"Read", "email", "number", "Two">>,
      <<"read", "email", "5">>, <<"read", "email", "0">>, <<"read", "it">>,
      <<"read">>,
      <<"draft", "a", "reply", "saying", "hello">>,
      <<"draft", "a", "reply", "for", "email", "2">>,
      <<"draft", "reply", "for", "email", "1">>,
      <<"check", "my", "gmail">>, <<"send", "email", "to", "john">> }
Commands == {Text(u) : u \in Utterances}

\* Texts the reply-body generator can produce.
ReplyBodies == {"reply A", "reply B"}

\* Tool calls the intent classifier can ask for.
ClassifierToolCalls ==
    { [tool |-> "list_gmail_emails", params |-> [max_results |-> 10]],
      [tool |-> "search_icloud", params |-> [sender |-> "ann", max_results |-> 5]],
      [tool |-> "read_gmail_email", params |-> [email_id |-> Chars["18c2f"]]],
      [tool |-> "send_gmail_email",
       params |-> [to |-> Chars["bob@y.org"], subject |-> Text(<<"Hi">>), body |-> "reply A"]],
      [tool |-> "draft_gmail_reply",
       params |-> [email_id |-> Chars["18c2f"], reply_body |-> "reply A"]] }

\* What the chat completion of the intent classifier can come back with:
\* an exception, text that is not JSON, JSON that is not an object, or a
\* JSON object.
ClassifierOutputs ==
    {[kind |-> "raised"], [kind |-> "text", text |-> "I cannot help with that"],
     [kind |-> "json", text |-> "[]"]}
    \cup {[kind |-> "decision", decision |-> d] :
            d \in {[action |-> "respond", message |-> "On it!"],
                   [action |-> "respond"],
                   [action |-> "call_tool", message |-> "Working"]}
                  \cup {[action |-> "call_tool", tool |-> c.tool, params |-> c.params,
                         message |-> "Working"] : c \in ClassifierToolCalls}}

\* ------------------------------------------------------------------------
\* State
\* ------------------------------------------------------------------------
VARIABLES
    user_context,   \* EmailBot.user_context: user id -> session
    request,        \* the request handled last, None before the first
    before,         \* the session of its user when that request arrived
    tool_calls,     \* the MCP tool calls that request made, in order
    llm_calls,      \* the classifier and reply-generator calls it made
    response,       \* the response text it returned, None before the first
    mcp_client,     \* the fields of the MCPEmailClient object
    mcp_pc,         \* where the code that owns the client stands
    mcp_log,        \* what has been done with the transport and the session
    in_flight,      \* the requests suspended at a tool call, in order of arrival
    draft_sends,    \* the send calls made for the draft now pending, in order
    overlapped      \* whether a request has begun while another was in flight

mcp_vars == <<mcp_client, mcp_pc, mcp_log>>
race_vars == <<in_flight, draft_sends, overlapped>>
vars == <<user_context, request, before, tool_calls, llm_calls, response,
          mcp_client, mcp_pc, mcp_log, in_flight, draft_sends, overlapped>>

EmptyDict == <<>>

\* The session _get_ctx creates and clear_command installs.
NewContext ==
    [email_list |-> <<>>, read_emails |-> EmptyDict,
     pending_draft |-> None, last_action_email_num |-> None]

\* _get_ctx: the user's session, created on first use.
get_ctx(user_id) ==
    IF user_id \in DOMAIN user_context THEN user_context[user_id] ELSE NewContext

\* Put that stores the session under one key shared by all users
Put_SharedKey(user_id, ctx) ==
    [u \in DOMAIN user_context \cup {user_id} |-> ctx]

\* user_context with the session of user_id replaced by ctx
Put(user_id, ctx) == (user_id :> ctx) @@ user_context

\* MCPEmailClient.__init__; _stdio_context and _session_context are not
\* assigned yet.
NewClient ==
    [session |-> None, available_tools |-> <<>>,
     stdio_context |-> None, session_context |-> None]

\* The tools the session lists, by name.
ListedTools ==
    <<"list_gmail_emails", "list_icloud_emails", "read_gmail_email",
      "read_icloud_email", "send_gmail_email", "send_icloud_email",
      "search_gmail", "search_icloud", "draft_gmail_reply", "draft_icloud_reply">>

Event(e) == [event |-> e]

\* The client after __aenter__ has returned, and what __aenter__ did.
ConnectedClient ==
    [session |-> Some("session"), available_tools |-> ListedTools,
     stdio_context |-> Some("stdio"), session_context |-> Some("session")]
ConnectedLog ==
    <<Event("stdio.__aenter__"), Event("session.__aenter__"),
      Event("session.initialize"), Event("session.list_tools")>>

\* The bot after post_init: no session of a user yet, the MCP client
\* connected.
Init ==
    /\ user_context = EmptyDict
    /\ request = None
    /\ before = NewContext
    /\ tool_calls = <<>>
    /\ llm_calls = <<>>
    /\ response = None
    /\ mcp_client = ConnectedClient
    /\ mcp_pc = "body"
    /\ mcp_log = ConnectedLog
    /\ in_flight = <<>>
    /\ draft_sends = <<>>
    /\ overlapped = FALSE

\* The handler returns: the session it leaves and what it did.  A handler
\* that runs from arrival to return with no other request in between
\* leaves nothing in flight.
Reply(user_id, handler, command, ctx, calls, llm, resp) ==
    /\ user_context' = Put(user_id, ctx)
    /\ request' = Some([handler |-> handler, user |-> user_id, command |-> command])
    /\ before' = get_ctx(user_id)
    /\ tool_calls' = calls
    /\ llm_calls' = llm
    /\ response' = Some(resp)
    /\ UNCHANGED mcp_vars
    /\ UNCHANGED race_vars

\* The except clause around the whole of process_email_command.
Sorry == [kind |-> "sorry"]

\* ------------------------------------------------------------------------
\* process_email_command: intent resolution
\* ------------------------------------------------------------------------
\* command_lower, computed from the raw command
command_lower(command) == strip(lower(normalize_command(command)))

send_triggers ==
    { <<"send", "reply">>, <<"send", "it">>, <<"yes", "send">>, <<"send", "this">>,
      <<"send", "the", "reply">>, <<"send", "that">>, <<"yes">>, <<"confirm">>,
      <<"go", "ahead">>, <<"send", "now">> }
is_send(cl) == ContainsAny(cl, send_triggers)

is_read(cl) ==
    /\ Contains(cl, Chars["read"])
    /\ ~ContainsAny(cl, {<<"draft">>, <<"reply">>, <<"respond">>, <<"send">>})

single_read_triggers ==
    { <<"read", "it">>, <<"read", "this">>, <<"open", "it">>, <<"open", "this">>,
      <<"read", "the", "email">>, <<"read", "that">>, <<"read", "the", "mail">> }
is_single_trigger(cl) == ContainsAny(cl, single_read_triggers)

read_skip_words ==
    {"read", "email", "number", "the", "me", "please", "open", "show", "get",
     "fetch", "load", "mail", "a", "an"}
\* email_number of the read branch: a digit token first, a number word next
read_email_number(cl) ==
    IF digit_match(cl) # None THEN digit_match(cl)
    ELSE FirstWordNumber(split(cl), read_skip_words)

draft_triggers ==
    { <<"draft">>, <<"reply", "to">>, <<"respond", "to">>, <<"write", "back">>,
      <<"write", "a", "reply">>, <<"compose">> }
is_draft(cl) == ContainsAny(cl, draft_triggers)

draft_skip_words ==
    {"draft", "reply", "respond", "write", "compose", "email", "number", "mail",
     "a", "an", "the", "to", "for", "this", "that", "my", "me", "please"}
\* target_email_num as the utterance gives it
draft_email_number(cl) ==
    IF explicit_match(cl) # None THEN explicit_match(cl)
    ELSE FirstWordNumber(split(cl), draft_skip_words)

\* Python truth of an optional integer
Truthy(n) == n # None /\ n[1] # 0

\* Everything process_email_command computes from the text of the command
\* alone, computed once per command.
Parse(command) ==
    LET cl == command_lower(command)
    IN  [command |-> normalize_command(command),
         is_send |-> is_send(cl),
         has_cancel |-> Contains(cl, Chars["cancel"]),
         is_read |-> is_read(cl),
         is_single_trigger |-> is_single_trigger(cl),
         digit_match |-> digit_match(cl),
         read_email_number |-> read_email_number(cl),
         is_draft |-> is_draft(cl),
         draft_email_number |-> draft_email_number(cl),
         hint_match |-> hint_match(cl)]
Parsed == {<<c, Parse(c)>> : c \in Commands}

\* Read utterances that give the numbers 1 to 10 as digits, as number words
\* and as ordinal words.
NumberDigits == <<"1", "2", "3", "4", "5", "6", "7", "8", "9", "10">>
NumberWords ==
    <<"one", "two", "three", "four", "five", "six", "seven", "eight", "nine", "ten">>
OrdinalWords ==
    <<"first", "second", "third", "fourth", "fifth", "sixth", "seventh", "eighth",
      "ninth", "tenth">>
NumberUtterance(w) == <<"read", "email", "number", w>>
NumberForms(k) ==
    {Text(NumberUtterance(w)) : w \in {NumberDigits[k], NumberWords[k], OrdinalWords[k]}}
NumberCommands == UNION {NumberForms(k) : k \in 1..10}
NumberParsed ==
    {<<c, Parse(c)>> : c \in NumberCommands \cup {Text(<<"check", "my", "gmail">>)}}

\* Utterances that match several intents, that hold a confirmation phrase
\* inside a longer word, or that name a draft target by an ordinal word,
\* with the utterances that load a list, read and draft.
PhraseUtterances ==
    { <<"check", "my", "gmail">>, <<"read", "email", "1">>, <<"read", "email", "2">>,
      <<"draft", "a", "reply", "saying", "hello">>, <<"send", "it">>, <<"cancel">>,
      <<"yes", "cancel">>, <<"yes", "read", "email", "1">>,
      <<"cancel", "and", "read", "email", "1">>, <<"cancel", "the", "draft">>,
      <<"read", "email", "1", "and", "compose">>,
      <<"yesterday">>, <<"confirmation">>,
      <<"draft", "a", "reply", "for", "the", "second", "one">>,
      <<"reply", "to", "email", "1">>, <<"respond", "to", "this">> }
PhraseParsed == {<<Text(u), Parse(Text(u))>> : u \in PhraseUtterances}

parse(command) ==
    (CHOOSE p \in Parsed \cup NumberParsed \cup PhraseParsed : p[1] = command)[2]

\* Resolve whose send branch is entered only when a draft is pending, so
\* that a confirmation without a draft falls through to the later branches
Resolve_SendNeedsDraft(ctx, p) ==
    IF p.is_send /\ ctx.pending_draft # None THEN "send"
    ELSE IF p.has_cancel /\ ctx.pending_draft # None THEN "cancel"
    ELSE IF p.is_read /\ ctx.email_list # <<>> THEN "read"
    ELSE IF p.is_draft THEN "draft"
    ELSE "defer"

\* Resolve whose read branch is entered only for a number within the list,
\* so that an out-of-range read falls through to the intent classifier
Resolve_ReadNeedsInRange(ctx, p) ==
    IF p.is_send THEN "send"
    ELSE IF p.has_cancel /\ ctx.pending_draft # None THEN "cancel"
    ELSE IF /\ p.is_read /\ ctx.email_list # <<>>
            /\ (p.read_email_number # None => p.read_email_number[1] <= Len(ctx.email_list))
         THEN "read"
    ELSE IF p.is_draft THEN "draft"
    ELSE "defer"

\* Resolve whose draft branch is entered only when a message has been read,
\* so that a draft request without one falls through to the intent
\* classifier
Resolve_DraftNeedsRead(ctx, p) ==
    IF p.is_send THEN "send"
    ELSE IF p.has_cancel /\ ctx.pending_draft # None THEN "cancel"
    ELSE IF p.is_read /\ ctx.email_list # <<>> THEN "read"
    ELSE IF p.is_draft /\ ctx.read_emails # EmptyDict THEN "draft"
    ELSE "defer"

\* Resolve whose read branch is entered without a loaded list
Resolve_ReadNeedsNoList(ctx, p) ==
    IF p.is_send THEN "send"
    ELSE IF p.has_cancel /\ ctx.pending_draft # None THEN "cancel"
    ELSE IF p.is_read THEN "read"
    ELSE IF p.is_draft THEN "draft"
    ELSE "defer"

\* Resolve that tests for a cancellation before it tests for a confirmation
Resolve_CancelFirst(ctx, p) ==
    IF p.has_cancel /\ ctx.pending_draft # None THEN "cancel"
    ELSE IF p.is_send THEN "send"
    ELSE IF p.is_read /\ ctx.email_list # <<>> THEN "read"
    ELSE IF p.is_draft THEN "draft"
    ELSE "defer"

\* The branch of process_email_command that handles the utterance.
Resolve(ctx, p) ==
    IF p.is_send THEN "send"
    ELSE IF p.has_cancel /\ ctx.pending_draft # None THEN "cancel"
    ELSE IF p.is_read /\ ctx.email_list # <<>> THEN "read"
    ELSE IF p.is_draft THEN "draft"
    ELSE "defer"

\* ------------------------------------------------------------------------
\* process_email_command: the five branches
\* ------------------------------------------------------------------------
Call(tool, kwargs, outcome) == [tool |-> tool, kwargs |-> kwargs, outcome |-> outcome]

\* send_tool that sends every draft through Gmail
send_tool_AlwaysGmail(account) == "send_gmail_email"

send_tool(account) ==
    IF account = "icloud" THEN "send_icloud_email" ELSE "send_gmail_email"

\* SendArgs with the subject passed as the body
SendArgs_SubjectAsBody(draft) ==
    [to |-> draft.to, subject |-> draft.subject, body |-> draft.subject]

\* the keyword arguments of the send call of a draft
SendArgs(draft) == [to |-> draft.to, subject |-> draft.subject, body |-> draft.body]

\* AfterSend without the assignment that clears the draft
AfterSend_KeepsDraft(ctx) == ctx

\* The session after the send tool has returned.
AfterSend(ctx) == [ctx EXCEPT !.pending_draft = None]

\* 1. SEND REPLY
SendReply(user_id, command, p) ==
    LET ctx == get_ctx(user_id)
    IN  /\ Resolve(ctx, p) = "send"
        /\ IF ctx.pending_draft # None
           THEN LET draft == ctx.pending_draft[1]
                    tool == send_tool(draft.account)
                IN  \E o \in CallToolOutcomes(tool, SendArgs(draft)) :
                        LET calls == <<Call(tool, SendArgs(draft), o)>>
                        IN  IF o.raised
                            THEN Reply(user_id, "text", command, ctx, calls, <<>>, Sorry)
                            ELSE Reply(user_id, "text", command, AfterSend(ctx), calls, <<>>,
                                       IF HasError(o.value)
                                       THEN [kind |-> "send_failed", error |-> o.value.dict.error]
                                       ELSE [kind |-> "sent", to |-> draft.to])
           ELSE Reply(user_id, "text", command, ctx, <<>>, <<>>, [kind |-> "no_draft"])

\* DropDraft that also forgets which message was read last
DropDraft_ForgetsLast(ctx) ==
    [ctx EXCEPT !.pending_draft = None, !.last_action_email_num = None]

\* The session after the cancel branch has dropped the draft.
DropDraft(ctx) == [ctx EXCEPT !.pending_draft = None]

\* 2. CANCEL DRAFT
CancelDraft(user_id, command, p) ==
    LET ctx == get_ctx(user_id)
    IN  /\ Resolve(ctx, p) = "cancel"
        /\ Reply(user_id, "text", command, DropDraft(ctx), <<>>, <<>>, [kind |-> "cancelled"])

\* the provider an id is routed to
account_of(email_id) == IF isdigit(email_id) THEN "icloud" ELSE "gmail"
read_tool(account) ==
    IF account = "icloud" THEN "read_icloud_email" ELSE "read_gmail_email"

\* 0 <= email_index < len(email_list), for email_index = email_number - 1
InRange(email_number, email_list) ==
    0 <= email_number - 1 /\ email_number - 1 < Len(email_list)

\* StoreRead that rebinds read_emails to a dict holding the new entry only
StoreRead_Replaces(ctx, email_number, result, email_id, account) ==
    LET stored == [id |-> email_id, account |-> account, list_number |-> email_number]
                  @@ result
    IN  [ctx EXCEPT !.read_emails = (str(email_number) :> stored),
                    !.last_action_email_num = Some(str(email_number))]

\* StoreRead that keys the entry by the list index, email_number - 1
StoreRead_KeysByIndex(ctx, email_number, result, email_id, account) ==
    LET stored == [id |-> email_id, account |-> account, list_number |-> email_number]
                  @@ result
    IN  [ctx EXCEPT !.read_emails = (str(email_number - 1) :> stored) @@ ctx.read_emails,
                    !.last_action_email_num = Some(str(email_number - 1))]

\* StoreRead that also drops the pending draft
StoreRead_DropsDraft(ctx, email_number, result, email_id, account) ==
    LET stored == [id |-> email_id, account |-> account, list_number |-> email_number]
                  @@ result
    IN  [ctx EXCEPT !.read_emails = (str(email_number) :> stored) @@ ctx.read_emails,
                    !.last_action_email_num = Some(str(email_number)),
                    !.pending_draft = None]

\* The session after a read result has been stored for email_number.
StoreRead(ctx, email_number, result, email_id, account) ==
    LET stored == [id |-> email_id, account |-> account, list_number |-> email_number]
                  @@ result
    IN  [ctx EXCEPT !.read_emails = (str(email_number) :> stored) @@ ctx.read_emails,
                    !.last_action_email_num = Some(str(email_number))]

\* _format_email_content of a dict
format_email_content(email_data) ==
    IF "error" \in DOMAIN email_data
    THEN [kind |-> "read_error", error |-> email_data.error]
    ELSE [kind |-> "email_content",
          from |-> Arg(email_data, "from", Text(<<"Unknown">>)),
          subject |-> Arg(email_data, "subject", Text(<<"No", "subject">>)),
          body |-> strip_html(Arg(email_data, "body", Text(<<"No", "content">>)))]

\* The read of position email_number, common to the single-result path
\* and the numbered path.
ReadAt(user_id, command, ctx, email_number) ==
    LET target == ctx.email_list[email_number]
        email_id == target.id
        account == account_of(email_id)
        tool == read_tool(account)
        kwargs == [email_id |-> email_id]
    IN  \E o \in CallToolOutcomes(tool, kwargs) :
            LET calls == <<Call(tool, kwargs, o)>>
            IN  IF o.raised \/ ~isinstance(o.value, "dict")
                THEN \* the call raised, or _format_email_content raised on None
                     Reply(user_id, "text", command, ctx, calls, <<>>, Sorry)
                ELSE IF HasError(o.value)
                THEN Reply(user_id, "text", command, ctx, calls, <<>>,
                           format_email_content(o.value.dict))
                ELSE Reply(user_id, "text", command,
                           StoreRead(ctx, email_number, o.value.dict, email_id, account),
                           calls, <<>>,
                           format_email_content(o.value.dict))

\* auto_read that asks for one of the 'read it' phrases
auto_read_NeedsTrigger(ctx, p) ==
    Len(ctx.email_list) = 1 /\ p.is_single_trigger

\* Auto-read: the list holds one message and the utterance says 'read it'
\* or gives no number.
\* auto_read that does not look at the length of the list
auto_read_AnyLength(ctx, p) ==
    p.is_single_trigger \/ p.digit_match = None

auto_read(ctx, p) ==
    Len(ctx.email_list) = 1 /\ (p.is_single_trigger \/ p.digit_match = None)

\* 3. READ EMAIL NUMBER X
ReadEmail(user_id, command, p) ==
    LET ctx == get_ctx(user_id)
        email_number == p.read_email_number
    IN  /\ Resolve(ctx, p) = "read"
        /\ IF auto_read(ctx, p)
           THEN ReadAt(user_id, command, ctx, 1)
           ELSE IF Truthy(email_number)
           THEN IF InRange(email_number[1], ctx.email_list)
                THEN ReadAt(user_id, command, ctx, email_number[1])
                ELSE Reply(user_id, "text", command, ctx, <<>>, <<>>,
                           [kind |-> "only_n", count |-> Len(ctx.email_list)])
           ELSE Reply(user_id, "text", command, ctx, <<>>, <<>>, [kind |-> "specify_number"])

\* reply_subject
reply_subject(subject) ==
    IF StartsAt(lower(subject), Chars["re:"], 1) THEN subject
    ELSE Chars["Re:"] \o <<" ">> \o subject

\* The draft built from the message read and the generated body.
BuildDraft(target_email_data, target_email_num, reply_body) ==
    [to |-> parse_recipient(Arg(target_email_data, "from", <<>>)),
     subject |-> reply_subject(Arg(target_email_data, "subject", <<>>)),
     body |-> reply_body,
     account |-> Arg(target_email_data, "account", "gmail"),
     for_email_num |-> target_email_num]

\* StoreDraft that updates a pending draft in place and keeps its recipient
StoreDraft_Merges(ctx, draft) ==
    IF ctx.pending_draft = None
    THEN [ctx EXCEPT !.pending_draft = Some(draft)]
    ELSE [ctx EXCEPT !.pending_draft = Some([draft EXCEPT !.to = ctx.pending_draft[1].to])]

\* The session after a draft request has succeeded.
StoreDraft(ctx, draft) == [ctx EXCEPT !.pending_draft = Some(draft)]

\* DraftTarget whose fallback is the lowest position read, not the position
\* read last
DraftTarget_LowestRead(ctx, n) ==
    LET keys == DOMAIN ctx.read_emails
        low == CHOOSE k \in keys : \A j \in keys : int(k) <= int(j)
    IN  IF Truthy(n) /\ str(n[1]) \in keys
        THEN Some([num |-> PyInt(n[1]), data |-> ctx.read_emails[str(n[1])]])
        ELSE IF keys # {}
        THEN Some([num |-> PyStr(low), data |-> ctx.read_emails[low]])
        ELSE None

\* The message a draft request is about, n being the position named in the
\* utterance (None when it names none): that position when it has been read, else the position read last; None
\* when neither is in read_emails.  for_email_num is the int parsed from
\* the utterance in the first case, the str key in the second.
DraftTarget(ctx, n) ==
    LET last == ctx.last_action_email_num
    IN  IF Truthy(n) /\ str(n[1]) \in DOMAIN ctx.read_emails
        THEN Some([num |-> PyInt(n[1]), data |-> ctx.read_emails[str(n[1])]])
        ELSE IF last # None /\ last[1] \in DOMAIN ctx.read_emails
        THEN Some([num |-> PyStr(last[1]), data |-> ctx.read_emails[last[1]]])
        ELSE None

\* 4. DRAFT REPLY
DraftReply(user_id, command, p) ==
    LET ctx == get_ctx(user_id)
        target == DraftTarget(ctx, p.draft_email_number)
    IN  /\ Resolve(ctx, p) = "draft"
        /\ IF target = None
           THEN Reply(user_id, "text", command, ctx, <<>>, <<>>, [kind |-> "read_first"])
           ELSE LET data == target[1].data
                    hint == p.hint_match
                    gen(out) == [fn |-> "generate_reply_body",
                                 original_from |-> Arg(data, "from", <<>>),
                                 original_subject |-> Arg(data, "subject", <<>>),
                                 original_body |-> strip_html(Arg(data, "body", <<>>)),
                                 reply_hint |-> IF hint = None THEN <<>> ELSE hint[1],
                                 output |-> out]
                IN  \/ Reply(user_id, "text", command, ctx, <<>>, <<gen(Raised)>>, Sorry)
                    \/ \E reply_body \in ReplyBodies :
                          LET draft == BuildDraft(data, target[1].num, reply_body)
                          IN  Reply(user_id, "text", command, StoreDraft(ctx, draft),
                                    <<>>, <<gen(Returned(reply_body))>>,
                                    [kind |-> "draft_preview", draft |-> draft])

\* LoadList that replaces the list and leaves the read cache in place
LoadList_KeepsReads(ctx, tool_result) ==
    [email_list |-> tool_result, read_emails |-> ctx.read_emails,
     last_action_email_num |-> None, pending_draft |-> None]

\* LoadList without the assignment that clears the pending draft
LoadList_KeepsDraft(ctx, tool_result) ==
    [email_list |-> tool_result, read_emails |-> EmptyDict,
     last_action_email_num |-> None, pending_draft |-> ctx.pending_draft]

\* LoadList without the assignment that resets last_action_email_num
LoadList_KeepsLast(ctx, tool_result) ==
    [email_list |-> tool_result, read_emails |-> EmptyDict,
     last_action_email_num |-> ctx.last_action_email_num, pending_draft |-> None]

\* The session after a list/search call has returned a non-empty list.
LoadList(ctx, tool_result) ==
    [email_list |-> tool_result, read_emails |-> EmptyDict,
     last_action_email_num |-> None, pending_draft |-> None]

\* decision_message that answers the default text whatever the decision says
decision_message_Default(decision) == "Done!"

\* decision.get("message", "Done!")
decision_message(decision) == Arg(decision, "message", "Done!")

\* AfterToolCall without the test for an empty list: any list result is
\* loaded
AfterToolCall_LoadsEmpty(user_id, command, ctx, decision, calls, llm, o) ==
    IF o.raised
    THEN Reply(user_id, "text", command, ctx, calls, llm, Sorry)
    ELSE IF isinstance(o.value, "list")
    THEN Reply(user_id, "text", command, LoadList(ctx, o.value.items), calls, llm,
               [kind |-> "email_list", emails |-> o.value.items])
    ELSE IF isinstance(o.value, "dict")
    THEN Reply(user_id, "text", command, ctx, calls, llm,
               IF "error" \in DOMAIN o.value.dict
               THEN [kind |-> "tool_error", error |-> o.value.dict.error]
               ELSE IF Arg(o.value.dict, "status", "") = "sent"
               THEN [kind |-> "email_sent"]
               ELSE [kind |-> "tool_result", result |-> o.value.dict])
    ELSE Reply(user_id, "text", command, ctx, calls, llm,
               [kind |-> "message", text |-> decision_message(decision)])

\* What follows the tool call of a call_tool decision.
AfterToolCall(user_id, command, ctx, decision, calls, llm, o) ==
    IF o.raised
    THEN Reply(user_id, "text", command, ctx, calls, llm, Sorry)
    ELSE IF isinstance(o.value, "list")
    THEN IF Len(o.value.items) > 0
         THEN Reply(user_id, "text", command, LoadList(ctx, o.value.items), calls, llm,
                    [kind |-> "email_list", emails |-> o.value.items])
         ELSE Reply(user_id, "text", command, ctx, calls, llm, [kind |-> "no_emails"])
    ELSE IF isinstance(o.value, "dict")
    THEN Reply(user_id, "text", command, ctx, calls, llm,
               IF "error" \in DOMAIN o.value.dict
               THEN [kind |-> "tool_error", error |-> o.value.dict.error]
               ELSE IF Arg(o.value.dict, "status", "") = "sent"
               THEN [kind |-> "email_sent"]
               ELSE [kind |-> "tool_result", result |-> o.value.dict])
    ELSE Reply(user_id, "text", command, ctx, calls, llm,
               [kind |-> "message", text |-> decision_message(decision)])

\* 5. NORMAL GROQ PROCESSING
Defer(user_id, command, p) ==
    LET ctx == get_ctx(user_id)
    IN  /\ Resolve(ctx, p) = "defer"
        /\ \E out \in ClassifierOutputs :
              LET llm == <<[fn |-> "classify", command |-> p.command,
                            output |-> out]>>
              IN  CASE out.kind = "raised" ->
                          Reply(user_id, "text", command, ctx, <<>>, llm, Sorry)
                    [] out.kind = "text" ->
                          Reply(user_id, "text", command, ctx, <<>>, llm,
                                [kind |-> "raw", text |-> out.text])
                    [] out.kind = "json" ->
                          \* decision.get on a value that is not a dict
                          Reply(user_id, "text", command, ctx, <<>>, llm, Sorry)
                    [] out.kind = "decision" ->
                          LET decision == out.decision
                          IN  IF Arg(decision, "action", "") # "call_tool"
                              THEN Reply(user_id, "text", command, ctx, <<>>, llm,
                                         [kind |-> "message", text |-> decision_message(decision)])
                              ELSE IF "tool" \notin DOMAIN decision
                              THEN \* decision["tool"] raises KeyError
                                   Reply(user_id, "text", command, ctx, <<>>, llm, Sorry)
                              ELSE LET kwargs == Arg(decision, "params", EmptyDict)
                                   IN  \E o \in CallToolOutcomes(decision.tool, kwargs) :
                                          AfterToolCall(user_id, command, ctx, decision,
                                                        <<Call(decision.tool, kwargs, o)>>, llm, o)

\* process_email_command, for a command and what its text parses to
ProcessEmailCommand(user_id, command, p) ==
    \/ SendReply(user_id, command, p)
    \/ CancelDraft(user_id, command, p)
    \/ ReadEmail(user_id, command, p)
    \/ DraftReply(user_id, command, p)
    \/ Defer(user_id, command, p)

\* ClearCommand that forgets the read messages and the draft but keeps the
\* list
ClearCommand_KeepsList(user_id) ==
    Reply(user_id, "clear", <<>>,
          [email_list |-> get_ctx(user_id).email_list, read_emails |-> EmptyDict,
           pending_draft |-> None, last_action_email_num |-> None],
          <<>>, <<>>, [kind |-> "cleared"])

\* clear_command
ClearCommand(user_id) ==
    Reply(user_id, "clear", <<>>, NewContext, <<>>, <<>>, [kind |-> "cleared"])

\* status_command
StatusCommand(user_id) ==
    LET ctx == get_ctx(user_id)
    IN  Reply(user_id, "status", <<>>, ctx, <<>>, <<>>, [kind |-> "status", ctx |-> ctx])

\* One request at a time.
Next ==
    \E user_id \in Users :
        \/ \E c \in Parsed : ProcessEmailCommand(user_id, c[1], c[2])
        \/ ClearCommand(user_id)
        \/ StatusCommand(user_id)

Spec == Init /\ [][Next]_vars

\* One request at a time, the utterances being the numbered reads and the
\* request for a list.
NextNumbers ==
    \E user_id \in Users :
        \E c \in NumberParsed :
            \/ ReadEmail(user_id, c[1], c[2])
            \/ Defer(user_id, c[1], c[2])

SpecNumbers == Init /\ [][NextNumbers]_vars

\* Two Telegram users talking to the same bot, one request at a time.
Users2 == {"u1", "u2"}
UserParsed ==
    {c \in Parsed :
        c[1] \in {Text(<<"check", "my", "gmail">>), Text(<<"read", "email", "1">>),
                  Text(<<"draft", "a", "reply", "saying", "hello">>),
                  Text(<<"send", "it">>), Text(<<"cancel">>)}}
NextUsers ==
    \E user_id \in Users2 :
        \/ \E c \in UserParsed : ProcessEmailCommand(user_id, c[1], c[2])
        \/ ClearCommand(user_id)
        \/ StatusCommand(user_id)

SpecUsers == Init /\ [][NextUsers]_vars

\* One user sending the utterances of PhraseUtterances.
NextPhrases ==
    \E user_id \in Users :
        \E c \in PhraseParsed : ProcessEmailCommand(user_id, c[1], c[2])

SpecPhrases == Init /\ [][NextPhrases]_vars

\* ------------------------------------------------------------------------
\* Requests of one user that overlap.  process_email_command is a
\* coroutine: it runs without interruption up to an
\* `await self.mcp_client.call_tool(...)`, where other requests can run,
\* and goes on when the call has returned.  The two chat completions are
\* blocking calls, no suspension points.  ctx is the session object itself,
\* so a resumed request sees and changes the session as it is by then.
\* What the requests answer is not recorded here.
\* ------------------------------------------------------------------------
MaxInFlight == 2
MaxSends == 2

OverlapParsed ==
    {c \in Parsed :
        c[1] \in {Text(<<"check", "my", "gmail">>), Text(<<"read", "email", "1">>),
                  Text(<<"draft", "a", "reply", "saying", "hello">>),
                  Text(<<"send", "it">>)}}

\* What the intent classifier answers here: a respond decision, or one of
\* two listing calls.
OverlapClassifierOutputs ==
    {out \in ClassifierOutputs :
        /\ out.kind = "decision"
        /\ "message" \in DOMAIN out.decision
        /\ "tool" \in DOMAIN out.decision =>
              out.decision.tool \in {"list_gmail_emails", "search_icloud"}}

\* The request of user_id returns and leaves the session ctx.
Finish(user_id, ctx) ==
    /\ user_context' = Put(user_id, ctx)
    /\ UNCHANGED <<request, before, tool_calls, llm_calls, response>>
    /\ UNCHANGED mcp_vars

\* A request runs from arrival to return without a suspension.
Straight ==
    /\ overlapped' = (overlapped \/ in_flight # <<>>)
    /\ UNCHANGED in_flight

\* A request is suspended at a tool call; r is what it holds in its local
\* variables.
Suspend(r) ==
    /\ Len(in_flight) < MaxInFlight
    /\ in_flight' = Append(in_flight, r)
    /\ overlapped' = (overlapped \/ in_flight # <<>>)
    /\ UNCHANGED <<user_context, request, before, tool_calls, llm_calls, response>>
    /\ UNCHANGED mcp_vars

Remove(seq, i) == SubSeq(seq, 1, i - 1) \o SubSeq(seq, i + 1, Len(seq))

\* The pending draft is replaced or dropped by something other than its
\* own send: the send calls still in flight were made for another draft.
Untrack(seq) ==
    [j \in DOMAIN seq |->
        IF seq[j].kind = "send" THEN [seq[j] EXCEPT !.slot = 0] ELSE seq[j]]

\* 1. SEND REPLY, up to the send call
OverlapSend(user_id, p) ==
    LET ctx == get_ctx(user_id)
    IN  /\ Resolve(ctx, p) = "send"
        /\ IF ctx.pending_draft # None
           THEN /\ Len(draft_sends) < MaxSends
                /\ Suspend([kind |-> "send", user |-> user_id,
                            draft |-> ctx.pending_draft[1],
                            slot |-> Len(draft_sends) + 1])
                /\ draft_sends' = Append(draft_sends, "in flight")
           ELSE /\ Finish(user_id, ctx)
                /\ Straight
                /\ UNCHANGED draft_sends

\* 1. SEND REPLY, from the return of the send call
ResumeSend(i) ==
    /\ i \in DOMAIN in_flight
    /\ in_flight[i].kind = "send"
    /\ LET r == in_flight[i]
           ctx == get_ctx(r.user)
       IN  /\ in_flight' = Remove(in_flight, i)
           /\ UNCHANGED overlapped
           /\ \E o \in CallToolOutcomes(send_tool(r.draft.account), SendArgs(r.draft)) :
                 /\ draft_sends' =
                       IF r.slot = 0 THEN draft_sends
                       ELSE [draft_sends EXCEPT
                                ![r.slot] = IF o.raised THEN "raised" ELSE "returned"]
                 /\ IF o.raised
                    THEN Finish(r.user, ctx)
                    ELSE Finish(r.user, AfterSend(ctx))

\* 3. READ EMAIL NUMBER X, up to the read call
OverlapRead(user_id, p) ==
    LET ctx == get_ctx(user_id)
        email_number == p.read_email_number
        at(n) == Suspend([kind |-> "read", user |-> user_id, email_number |-> n,
                          email_id |-> ctx.email_list[n].id,
                          account |-> account_of(ctx.email_list[n].id)])
        refuse == Finish(user_id, ctx) /\ Straight
    IN  /\ Resolve(ctx, p) = "read"
        /\ UNCHANGED draft_sends
        /\ IF auto_read(ctx, p)
           THEN at(1)
           ELSE IF Truthy(email_number)
           THEN IF InRange(email_number[1], ctx.email_list)
                THEN at(email_number[1])
                ELSE refuse
           ELSE refuse

\* 3. READ EMAIL NUMBER X, from the return of the read call
ResumeRead(i) ==
    /\ i \in DOMAIN in_flight
    /\ in_flight[i].kind = "read"
    /\ LET r == in_flight[i]
           ctx == get_ctx(r.user)
       IN  /\ in_flight' = Remove(in_flight, i)
           /\ UNCHANGED <<draft_sends, overlapped>>
           /\ \E o \in CallToolOutcomes(read_tool(r.account), [email_id |-> r.email_id]) :
                 IF o.raised \/ ~isinstance(o.value, "dict") \/ HasError(o.value)
                 THEN Finish(r.user, ctx)
                 ELSE Finish(r.user, StoreRead(ctx, r.email_number, o.value.dict,
                                               r.email_id, r.account))

\* 4. DRAFT REPLY: no suspension
OverlapDraft(user_id, p) ==
    LET ctx == get_ctx(user_id)
        target == DraftTarget(ctx, p.draft_email_number)
    IN  /\ Resolve(ctx, p) = "draft"
        /\ overlapped' = (overlapped \/ in_flight # <<>>)
        /\ IF target = None
           THEN /\ Finish(user_id, ctx)
                /\ UNCHANGED <<in_flight, draft_sends>>
           ELSE \/ \* the reply generator raises
                   /\ Finish(user_id, ctx)
                   /\ UNCHANGED <<in_flight, draft_sends>>
                \/ \E reply_body \in ReplyBodies :
                      /\ Finish(user_id,
                                StoreDraft(ctx, BuildDraft(target[1].data, target[1].num,
                                                           reply_body)))
                      /\ in_flight' = Untrack(in_flight)
                      /\ draft_sends' = <<>>

\* 5. NORMAL GROQ PROCESSING, up to the tool call
OverlapDefer(user_id, p) ==
    LET ctx == get_ctx(user_id)
    IN  /\ Resolve(ctx, p) = "defer"
        /\ UNCHANGED draft_sends
        /\ \E out \in OverlapClassifierOutputs :
              LET decision == out.decision
              IN  IF Arg(decision, "action", "") # "call_tool" \/ "tool" \notin DOMAIN decision
                  THEN Finish(user_id, ctx) /\ Straight
                  ELSE Suspend([kind |-> "tool", user |-> user_id, decision |-> decision])

\* 5. NORMAL GROQ PROCESSING, from the return of the tool call
ResumeDefer(i) ==
    /\ i \in DOMAIN in_flight
    /\ in_flight[i].kind = "tool"
    /\ LET r == in_flight[i]
           ctx == get_ctx(r.user)
           rest == Remove(in_flight, i)
       IN  /\ UNCHANGED overlapped
           /\ \E o \in CallToolOutcomes(r.decision.tool,
                                        Arg(r.decision, "params", EmptyDict)) :
                 IF ~o.raised /\ isinstance(o.value, "list") /\ Len(o.value.items) > 0
                 THEN /\ Finish(r.user, LoadList(ctx, o.value.items))
                      /\ in_flight' = Untrack(rest)
                      /\ draft_sends' = <<>>
                 ELSE /\ Finish(r.user, ctx)
                      /\ in_flight' = rest
                      /\ UNCHANGED draft_sends

\* Requests of one user, begun and resumed in any order.
NextOverlap ==
    \/ \E user_id \in Users : \E c \in OverlapParsed :
          \/ OverlapSend(user_id, c[2])
          \/ OverlapRead(user_id, c[2])
          \/ OverlapDraft(user_id, c[2])
          \/ OverlapDefer(user_id, c[2])
    \/ \E i \in 1..MaxInFlight :
          \/ ResumeSend(i)
          \/ ResumeRead(i)
          \/ ResumeDefer(i)

SpecOverlap == Init /\ [][NextOverlap]_vars

\* ------------------------------------------------------------------------
\* MCPEmailClient: `async with MCPEmailClient() as client:` and call_tool
\* ------------------------------------------------------------------------
\* call_tool invocations followed per client.
MaxClientCalls == 2

\* The tool calls the owner of the client makes.
ClientToolCalls ==
    { [tool |-> "list_gmail_emails", kwargs |-> [max_results |-> 3]],
      [tool |-> "read_gmail_email", kwargs |-> [email_id |-> Chars["18c2f"]]],
      [tool |-> "read_gmail_email", kwargs |-> EmptyDict],
      [tool |-> "list_icloud_emails", kwargs |-> [max_results |-> 1]],
      [tool |-> "list_icloud_emails", kwargs |-> [max_results |-> 0]],
      [tool |-> "search_icloud", kwargs |-> [sender |-> "ann", max_results |-> 0]],
      [tool |-> "draft_gmail_reply",
       kwargs |-> [email_id |-> Chars["18c2f"], reply_body |-> "hello"]],
      [tool |-> "delete_email", kwargs |-> [email_id |-> Chars["18c2f"]]] }

\* The bot's variables play no part in the life of the client.
BotIdle ==
    UNCHANGED <<user_context, request, before, tool_calls, llm_calls, response,
                in_flight, draft_sends, overlapped>>

\* An awaited call of __aenter__ raised: the with statement is left
\* without __aexit__.
EnterFailed(event) ==
    /\ mcp_pc' = "failed"
    /\ mcp_log' = Append(mcp_log, Event(event))

\* self._stdio_context = stdio_client(...); await its __aenter__()
OpenStdio ==
    /\ mcp_pc = "new"
    /\ mcp_client' = [mcp_client EXCEPT !.stdio_context = Some("stdio")]
    /\ \/ /\ mcp_pc' = "session"
          /\ mcp_log' = Append(mcp_log, Event("stdio.__aenter__"))
       \/ EnterFailed("stdio.__aenter__ raised")
    /\ BotIdle

\* self._session_context = ClientSession(read, write);
\* self.session = await its __aenter__()
OpenSession ==
    /\ mcp_pc = "session"
    /\ \/ /\ mcp_client' = [mcp_client EXCEPT !.session_context = Some("session"),
                                               !.session = Some("session")]
          /\ mcp_pc' = "initialize"
          /\ mcp_log' = Append(mcp_log, Event("session.__aenter__"))
       \/ /\ mcp_client' = [mcp_client EXCEPT !.session_context = Some("session")]
          /\ EnterFailed("session.__aenter__ raised")
    /\ BotIdle

\* await self.session.initialize()
Initialize ==
    /\ mcp_pc = "initialize"
    /\ \/ /\ mcp_pc' = "list_tools"
          /\ mcp_log' = Append(mcp_log, Event("session.initialize"))
       \/ EnterFailed("session.initialize raised")
    /\ UNCHANGED mcp_client
    /\ BotIdle

\* response = await self.session.list_tools(); return self
ListAndReturn ==
    /\ mcp_pc = "list_tools"
    /\ \/ /\ mcp_client' = [mcp_client EXCEPT !.available_tools = ListedTools]
          /\ mcp_pc' = "body"
          /\ mcp_log' = Append(mcp_log, Event("session.list_tools"))
       \/ /\ UNCHANGED mcp_client
          /\ EnterFailed("session.list_tools raised")
    /\ BotIdle

\* The body of the with statement ends, normally or with an exception.
LeaveBody ==
    /\ mcp_pc = "body"
    /\ mcp_pc' = "exit_1"
    /\ \E e \in {"body returned", "body raised"} : mcp_log' = Append(mcp_log, Event(e))
    /\ UNCHANGED mcp_client
    /\ BotIdle

\* aexit_order with the two contexts closed in the order they were opened
aexit_order_AsOpened == <<"stdio", "session">>

\* __aexit__: the contexts in the order they are closed
aexit_order == <<"session", "stdio">>

\* One `if self._X_context: await self._X_context.__aexit__(...)` of
\* __aexit__.
ExitStep(n) ==
    LET which == aexit_order[n]
        context == IF which = "session" THEN mcp_client.session_context
                   ELSE mcp_client.stdio_context
    IN  /\ mcp_pc = (IF n = 1 THEN "exit_1" ELSE "exit_2")
        /\ mcp_pc' = (IF n = 1 THEN "exit_2" ELSE "done")
        /\ mcp_log' = IF context # None
                      THEN Append(mcp_log, Event(which \o ".__aexit__"))
                      ELSE mcp_log
        /\ UNCHANGED mcp_client
        /\ BotIdle

CallEvents(log) == SelectSeq(log, LAMBDA e : e.event = "call_tool")

\* raise RuntimeError("Client not connected. ...")
RuntimeError == [raised |-> TRUE, error |-> "RuntimeError"]

\* What the session answers to a tool call on an open session: the contents
\* the server's call_tool returned, Some(contents), and what the client
\* makes of them; or no answer of the server's handler, None, with an
\* exception of the session or a reply without content.
Answers(tool_name, kwargs) ==
    {[content |-> Some(c),
      outcome |-> IF c = <<>> THEN Returned(PyNone) ELSE Returned(loads(c[1].text))] :
        c \in call_tool(tool_name, kwargs)}
    \cup {[content |-> None, outcome |-> o] : o \in {Returned(PyNone), Raised}}

\* MCPEmailClient.call_tool, called by the code that holds the client:
\* before the with statement, in its body, after it, or after __aenter__
\* raised.  A call on a session that is not open raises in the library.
ClientCallTool(tool_name, kwargs) ==
    /\ mcp_pc \in {"new", "body", "done", "failed"}
    /\ Len(CallEvents(mcp_log)) < MaxClientCalls
    /\ IF mcp_client.session = None
       THEN mcp_log' = Append(mcp_log, [event |-> "call_tool", at |-> mcp_pc,
                                        tool |-> tool_name, kwargs |-> kwargs,
                                        issued |-> FALSE, content |-> None,
                                        outcome |-> RuntimeError])
       ELSE \E a \in IF mcp_pc = "body" THEN Answers(tool_name, kwargs)
                     ELSE {[content |-> None, outcome |-> Raised]} :
               mcp_log' = Append(mcp_log, [event |-> "call_tool", at |-> mcp_pc,
                                           tool |-> tool_name, kwargs |-> kwargs,
                                           issued |-> TRUE, content |-> a.content,
                                           outcome |-> a.outcome])
    /\ UNCHANGED <<mcp_client, mcp_pc>>
    /\ BotIdle

\* A client just constructed, in a process that handles no utterance.
InitClient ==
    /\ user_context = EmptyDict
    /\ request = None
    /\ before = NewContext
    /\ tool_calls = <<>>
    /\ llm_calls = <<>>
    /\ response = None
    /\ mcp_client = NewClient
    /\ mcp_pc = "new"
    /\ mcp_log = <<>>
    /\ in_flight = <<>>
    /\ draft_sends = <<>>
    /\ overlapped = FALSE

NextClient ==
    \/ OpenStdio
    \/ OpenSession
    \/ Initialize
    \/ ListAndReturn
    \/ LeaveBody
    \/ \E n \in 1..2 : ExitStep(n)
    \/ \E c \in ClientToolCalls : ClientCallTool(c.tool, c.kwargs)

SpecClient == InitClient /\ [][NextClient]_vars

\* ------------------------------------------------------------------------
\* Properties
\* ------------------------------------------------------------------------
\* The last request was an utterance handled by process_email_command.
IsText == request # None /\ request[1].handler = "text"
\* What the text of that utterance parses to.
Cmd == parse(request[1].command)
\* The session of the requesting user after the request.
After == user_context[request[1].user]

SendTools == {"send_gmail_email", "send_icloud_email"}
ReadTools == {"read_gmail_email", "read_icloud_email"}

\* The single tool call of the last request returned value v.
ReturnedValue(call) == ~call.outcome.raised
IsErrorDict(v) == v.type = "dict" /\ "error" \in DOMAIN v.dict
IsSentDict(v) == v.type = "dict" /\ "status" \in DOMAIN v.dict /\ v.dict.status = "sent"

\* The call carries the to, subject and body of draft d.
CarriesDraft(call, d) ==
    /\ DOMAIN call.kwargs = {"to", "subject", "body"}
    /\ call.kwargs.to = d.to
    /\ call.kwargs.subject = d.subject
    /\ call.kwargs.body = d.body

\* The utterance is handled by the cancel branch / the read branch.
CancelsDraft == Cmd.has_cancel /\ ~Cmd.is_send /\ before.pending_draft # None
ReadsList ==
    /\ ~Cmd.is_send
    /\ ~(Cmd.has_cancel /\ before.pending_draft # None)
    /\ Cmd.is_read
    /\ before.email_list # <<>>
\* The read is resolved by the single-result convenience to position 1.
SingleRead ==
    Len(before.email_list) = 1 /\ (Cmd.is_single_trigger \/ Cmd.digit_match = None)
\* The position a read utterance resolves to, None when it names none.
ResolvedPosition == IF SingleRead THEN Some(1) ELSE Cmd.read_email_number

\* C1 (as stated): every send tool call of process_email_command, a call
\* made for a classifier decision included, answers a confirmation
\* utterance while a draft is pending and carries that draft's to,
\* subject and body.
C1_EverySendIsConfirmedDraft ==
    IsText =>
        \A i \in DOMAIN tool_calls :
            tool_calls[i].tool \in SendTools =>
                /\ Cmd.is_send
                /\ before.pending_draft # None
                /\ CarriesDraft(tool_calls[i], before.pending_draft[1])

\* C1 (amended): a send tool call made outside the Defer branch answers a
\* confirmation utterance while a draft is pending and carries that
\* draft's to, subject and body; a send tool call made in the Defer branch
\* is the call the classifier's decision names, with the decision's
\* parameters.
C1_LocalSendIsConfirmedDraft ==
    IsText =>
        \A i \in DOMAIN tool_calls :
            tool_calls[i].tool \in SendTools =>
                IF llm_calls = <<>>
                THEN /\ Cmd.is_send
                     /\ before.pending_draft # None
                     /\ CarriesDraft(tool_calls[i], before.pending_draft[1])
                ELSE /\ llm_calls[1].fn = "classify"
                     /\ llm_calls[1].output.kind = "decision"
                     /\ llm_calls[1].output.decision.action = "call_tool"
                     /\ tool_calls[i].tool = llm_calls[1].output.decision.tool
                     /\ tool_calls[i].kwargs = llm_calls[1].output.decision.params

\* C1 witness: a confirmation utterance has sent the pending draft.
C1_Witness ==
    /\ IsText /\ Cmd.is_send /\ before.pending_draft # None
    /\ llm_calls = <<>>
    /\ Len(tool_calls) = 1 /\ tool_calls[1].tool \in SendTools

\* C2: a confirmation utterance without a pending draft calls no tool and
\* no classifier, answers 'no pending draft' and leaves the session as it
\* was.
C2_NoSendWithoutDraft ==
    (IsText /\ Cmd.is_send /\ before.pending_draft = None) =>
        /\ tool_calls = <<>>
        /\ llm_calls = <<>>
        /\ response = Some([kind |-> "no_draft"])
        /\ After = before

\* C2 witness: a confirmation arrived in a session with a list and a read
\* message but no draft.
C2_Witness ==
    /\ IsText /\ Cmd.is_send /\ before.pending_draft = None
    /\ before.email_list # <<>> /\ before.read_emails # EmptyDict
    /\ response = Some([kind |-> "no_draft"])

\* C3: when a tool call returns a non-empty list, the session afterwards
\* holds that list, no read message, no draft and no last-touched
\* position, whatever it held before.
C3_ListResetsSubstate ==
    IsText =>
        \A i \in DOMAIN tool_calls :
            ( /\ ReturnedValue(tool_calls[i])
              /\ tool_calls[i].outcome.value.type = "list"
              /\ Len(tool_calls[i].outcome.value.items) > 0 ) =>
                After = [email_list |-> tool_calls[i].outcome.value.items,
                         read_emails |-> EmptyDict,
                         pending_draft |-> None,
                         last_action_email_num |-> None]

\* C3 witness: a list was loaded over a session with a read message, a
\* pending draft and a last-touched position.
C3_Witness ==
    /\ IsText /\ Len(tool_calls) = 1 /\ ReturnedValue(tool_calls[1])
    /\ tool_calls[1].outcome.value.type = "list"
    /\ Len(tool_calls[1].outcome.value.items) > 0
    /\ before.read_emails # EmptyDict
    /\ before.pending_draft # None
    /\ before.last_action_email_num # None
    /\ before.email_list # After.email_list

\* C4 (as stated): when the send tool returns an error object for a
\* confirmed draft, the draft stays pending as it was and the response
\* carries the error text.
C4_FailedSendKeepsDraft ==
    ( /\ IsText /\ Cmd.is_send /\ before.pending_draft # None
      /\ Len(tool_calls) = 1 /\ ReturnedValue(tool_calls[1])
      /\ IsErrorDict(tool_calls[1].outcome.value) ) =>
        /\ After.pending_draft = before.pending_draft
        /\ response = Some([kind |-> "send_failed",
                            error |-> tool_calls[1].outcome.value.dict.error])

\* C5: when the send tool succeeds for a confirmed draft, it was called
\* once with the draft's to, subject and body, the draft is gone, the
\* other session fields are as before and the response names the draft's
\* recipient.
C5_SuccessfulSend ==
    ( /\ IsText /\ Cmd.is_send /\ before.pending_draft # None
      /\ tool_calls # <<>> /\ ReturnedValue(tool_calls[1])
      /\ IsSentDict(tool_calls[1].outcome.value) ) =>
        /\ Len(tool_calls) = 1
        /\ tool_calls[1].tool \in SendTools
        /\ CarriesDraft(tool_calls[1], before.pending_draft[1])
        /\ After.pending_draft = None
        /\ After.read_emails = before.read_emails
        /\ After.email_list = before.email_list
        /\ After.last_action_email_num = before.last_action_email_num
        /\ response = Some([kind |-> "sent", to |-> before.pending_draft[1].to])

\* C5 witness: a pending draft was sent successfully.
C5_Witness ==
    /\ IsText /\ Cmd.is_send /\ before.pending_draft # None
    /\ Len(tool_calls) = 1 /\ ReturnedValue(tool_calls[1])
    /\ IsSentDict(tool_calls[1].outcome.value)
    /\ before.read_emails # EmptyDict
    /\ After.pending_draft = None

\* C6: a read utterance on a loaded list whose number is below 1 or above
\* the length of the list calls no read tool and leaves the session as it
\* was.
C6_OutOfRangeRead ==
    ( /\ IsText /\ ReadsList /\ ResolvedPosition # None
      /\ (ResolvedPosition[1] < 1 \/ ResolvedPosition[1] > Len(before.email_list)) ) =>
        /\ \A i \in DOMAIN tool_calls : tool_calls[i].tool \notin ReadTools
        /\ After = before

\* C6 witness: a read above the length of the list was refused in a
\* session that holds a read message.
C6_Witness ==
    /\ IsText /\ ReadsList /\ ResolvedPosition # None
    /\ ResolvedPosition[1] > Len(before.email_list)
    /\ before.read_emails # EmptyDict
    /\ response = Some([kind |-> "only_n", count |-> Len(before.email_list)])

\* The read_emails key a for_email_num value denotes.
KeyOf(for_email_num) ==
    IF "int" \in DOMAIN for_email_num THEN str(for_email_num.int) ELSE for_email_num.str

\* C7: a successful draft request for a position other than the one of the
\* draft already pending leaves one draft, for the new position, whose to,
\* subject, account and body all come from the message read at that
\* position.
C7_DraftOverwrite ==
    ( /\ IsText /\ response[1].kind = "draft_preview"
      /\ before.pending_draft # None
      /\ KeyOf(before.pending_draft[1].for_email_num)
            # KeyOf(After.pending_draft[1].for_email_num) ) =>
        LET d == After.pending_draft[1]
            k == KeyOf(d.for_email_num)
            m == before.read_emails[k]
        IN  /\ k \in DOMAIN before.read_emails
            /\ Cmd.draft_email_number # None =>
                  (str(Cmd.draft_email_number[1]) \in DOMAIN before.read_emails
                      => d.for_email_num = PyInt(Cmd.draft_email_number[1]))
            /\ d.to = parse_recipient(m.from)
            /\ d.subject = reply_subject(m.subject)
            /\ d.account = m.account
            /\ Len(llm_calls) = 1
            /\ llm_calls[1].original_from = m.from
            /\ llm_calls[1].original_subject = m.subject
            /\ llm_calls[1].original_body = strip_html(m.body)
            /\ llm_calls[1].output = Returned(d.body)
            /\ response[1].draft = d

\* C7 witness: a draft for one position replaced a draft for another whose
\* recipient differs.
C7_Witness ==
    /\ IsText /\ response[1].kind = "draft_preview"
    /\ before.pending_draft # None
    /\ KeyOf(before.pending_draft[1].for_email_num)
          # KeyOf(After.pending_draft[1].for_email_num)
    /\ before.pending_draft[1].to # After.pending_draft[1].to

\* C8 (as stated): a 'cancel' utterance without a pending draft is a
\* no-op: it answers without error, calls no mail tool and leaves the
\* session as it was.
C8_CancelWithoutDraftIsNoOp ==
    (IsText /\ Cmd.has_cancel /\ before.pending_draft = None) =>
        /\ tool_calls = <<>>
        /\ After = before
        /\ response[1].kind # "sorry"

\* C9: a 'cancel' utterance that matches no send phrase, with a draft
\* pending, drops the draft, calls no tool and no classifier, and leaves
\* the list, the read messages and the last-touched position as they were.
C9_CancelDropsOnlyDraft ==
    (IsText /\ CancelsDraft) =>
        /\ After.pending_draft = None
        /\ tool_calls = <<>>
        /\ llm_calls = <<>>
        /\ After.email_list = before.email_list
        /\ After.read_emails = before.read_emails
        /\ After.last_action_email_num = before.last_action_email_num

\* C9 witness: a draft was cancelled in a session with a read message.
C9_Witness ==
    /\ IsText /\ CancelsDraft
    /\ before.last_action_email_num # None
    /\ response = Some([kind |-> "cancelled"])

\* The last request read a position of the list and the read tool
\* returned a message.
SuccessfulRead ==
    /\ IsText /\ ReadsList
    /\ Len(tool_calls) = 1 /\ tool_calls[1].tool \in ReadTools
    /\ ReturnedValue(tool_calls[1])
    /\ tool_calls[1].outcome.value.type = "dict"
    /\ ~IsErrorDict(tool_calls[1].outcome.value)

\* C10: a successful read of position n stores the message under key n and
\* makes n the last-touched position; every entry read_emails held for
\* another position is still there unchanged, and so is the list.
C10_ReadIsAdditive ==
    SuccessfulRead =>
        LET n == ResolvedPosition[1]
            k == str(n)
            result == tool_calls[1].outcome.value.dict
        IN  /\ ResolvedPosition # None
            /\ n \in 1..Len(before.email_list)
            /\ k \in DOMAIN After.read_emails
            /\ After.read_emails[k].id = before.email_list[n].id
            /\ After.read_emails[k].list_number = n
            /\ \A f \in DOMAIN result \ {"id", "account", "list_number"} :
                  After.read_emails[k][f] = result[f]
            /\ After.last_action_email_num = Some(k)
            /\ \A j \in DOMAIN before.read_emails \ {k} :
                  /\ j \in DOMAIN After.read_emails
                  /\ After.read_emails[j] = before.read_emails[j]
            /\ After.email_list = before.email_list

\* C10 witness: a position was read while another position was already in
\* read_emails.
C10_Witness ==
    /\ SuccessfulRead
    /\ \E j \in DOMAIN before.read_emails : j # str(ResolvedPosition[1])

\* The last request read a position of the list and the read tool returned
\* an error object.
FailedRead ==
    /\ IsText /\ ReadsList
    /\ Len(tool_calls) = 1 /\ tool_calls[1].tool \in ReadTools
    /\ ReturnedValue(tool_calls[1])
    /\ IsErrorDict(tool_calls[1].outcome.value)

\* C11: when the read tool returns an error object for an in-range
\* position n, read_emails is as it was (no entry is added for n, an entry
\* it already held for n is kept), the last-touched position is as it was
\* and the response carries the error text.
C11_FailedReadStoresNothing ==
    FailedRead =>
        /\ ResolvedPosition # None
        /\ ResolvedPosition[1] \in 1..Len(before.email_list)
        /\ tool_calls[1].kwargs = [email_id |-> before.email_list[ResolvedPosition[1]].id]
        /\ After.read_emails = before.read_emails
        /\ After.last_action_email_num = before.last_action_email_num
        /\ response = Some([kind |-> "read_error",
                            error |-> tool_calls[1].outcome.value.dict.error])

\* C11 witness: the read of a position failed while read_emails held an
\* entry for it from an earlier read and another position was the
\* last-touched one.
C11_Witness ==
    /\ FailedRead
    /\ str(ResolvedPosition[1]) \in DOMAIN before.read_emails
    /\ before.last_action_email_num # None
    /\ before.last_action_email_num # Some(str(ResolvedPosition[1]))

\* The utterance is handled by the draft branch.
DraftsReply ==
    /\ ~Cmd.is_send
    /\ ~(Cmd.has_cancel /\ before.pending_draft # None)
    /\ ~(Cmd.is_read /\ before.email_list # <<>>)
    /\ Cmd.is_draft

\* C12 (as stated): a draft request that names a position for which
\* read_emails has no entry answers the 'read an email first'
\* clarification, calls no reply generator and creates no draft, also when
\* another position has been read and is the last-touched one.
C12_UnreadPositionIsRefused ==
    ( /\ IsText /\ DraftsReply
      /\ Cmd.draft_email_number # None
      /\ str(Cmd.draft_email_number[1]) \notin DOMAIN before.read_emails ) =>
        /\ response = Some([kind |-> "read_first"])
        /\ llm_calls = <<>>
        /\ After.pending_draft = before.pending_draft

\* C13: a draft request that names no position, in a session whose
\* last-touched position is n, is about read_emails[n]: unless the reply
\* generator fails, the pending draft afterwards is for n, its recipient,
\* subject and account come from read_emails[n], and the rest of the
\* session is as it was.
C13_UnqualifiedDraftTargetsLast ==
    ( /\ IsText /\ DraftsReply
      /\ Cmd.draft_email_number = None
      /\ before.last_action_email_num # None ) =>
        LET n == before.last_action_email_num[1]
            m == before.read_emails[n]
            d == After.pending_draft[1]
        IN  /\ n \in DOMAIN before.read_emails
            /\ m.list_number = int(n)
            /\ tool_calls = <<>>
            /\ Len(llm_calls) = 1
            /\ llm_calls[1].fn = "generate_reply_body"
            /\ llm_calls[1].original_from = m.from
            /\ llm_calls[1].original_subject = m.subject
            /\ IF llm_calls[1].output.raised
               THEN After = before
               ELSE /\ After.pending_draft # None
                    /\ d.for_email_num = PyStr(n)
                    /\ d.to = parse_recipient(m.from)
                    /\ d.subject = reply_subject(m.subject)
                    /\ d.account = m.account
                    /\ d.body = llm_calls[1].output.value
                    /\ After.email_list = before.email_list
                    /\ After.read_emails = before.read_emails
                    /\ After.last_action_email_num = before.last_action_email_num
                    /\ response = Some([kind |-> "draft_preview", draft |-> d])

\* C13 witness: a draft without a position was made for position 2, read
\* last, while position 1 had been read too.
C13_Witness ==
    /\ IsText /\ DraftsReply
    /\ Cmd.draft_email_number = None
    /\ before.last_action_email_num = Some(str(2))
    /\ str(1) \in DOMAIN before.read_emails
    /\ response[1].kind = "draft_preview"
    /\ After.pending_draft[1].for_email_num = PyStr(str(2))

\* No position of a read message can be resolved for the draft request:
\* the position the utterance names, if any, has not been read, and the
\* last-touched position is null or has not been read.
NoDraftTarget ==
    /\ Cmd.draft_email_number # None =>
          \/ Cmd.draft_email_number[1] = 0
          \/ str(Cmd.draft_email_number[1]) \notin DOMAIN before.read_emails
    /\ before.last_action_email_num # None =>
          before.last_action_email_num[1] \notin DOMAIN before.read_emails

\* C14: a draft request for which no position can be resolved answers the
\* clarification, calls neither the reply generator nor a mail tool, and
\* leaves the whole session, a pending draft included, as it was.
C14_NoTargetNoDraft ==
    (IsText /\ DraftsReply /\ NoDraftTarget) =>
        /\ response = Some([kind |-> "read_first"])
        /\ llm_calls = <<>>
        /\ tool_calls = <<>>
        /\ After = before

\* C14 witness: a reply for position 1 was asked for on a loaded list of
\* which no message had been read.
C14_Witness ==
    /\ IsText /\ DraftsReply /\ NoDraftTarget
    /\ Cmd.draft_email_number = Some(1)
    /\ Len(before.email_list) >= 1
    /\ response = Some([kind |-> "read_first"])

\* C15: on a list of exactly one entry, the utterances 'read it' and 'read'
\* read position 1: the read tool of the entry's provider is called once
\* with the entry's id, and when it returns a message the message is
\* stored under position 1, which becomes the last-touched position.
C15_SingleResultRead ==
    ( /\ IsText /\ ReadsList
      /\ Len(before.email_list) = 1
      /\ request[1].command \in {Text(<<"read", "it">>), Text(<<"read">>)} ) =>
        LET email_id == before.email_list[1].id
            o == tool_calls[1].outcome
        IN  /\ Len(tool_calls) = 1
            /\ tool_calls[1].tool \in ReadTools
            /\ tool_calls[1].tool = "read_icloud_email" <=> isdigit(email_id)
            /\ tool_calls[1].kwargs = [email_id |-> email_id]
            /\ (~o.raised /\ o.value.type = "dict" /\ ~IsErrorDict(o.value)) =>
                  /\ DOMAIN After.read_emails = DOMAIN before.read_emails \cup {str(1)}
                  /\ After.read_emails[str(1)].id = email_id
                  /\ After.read_emails[str(1)].list_number = 1
                  /\ After.read_emails[str(1)].subject = o.value.dict.subject
                  /\ After.last_action_email_num = Some(str(1))
                  /\ response[1].kind = "email_content"

\* C15 witness: the bare utterance 'read' has read and stored the only
\* entry of the list.
C15_Witness ==
    /\ IsText /\ ReadsList
    /\ Len(before.email_list) = 1
    /\ request[1].command = Text(<<"read">>)
    /\ before.read_emails = EmptyDict
    /\ str(1) \in DOMAIN After.read_emails
    /\ response[1].kind = "email_content"

\* The number a numbered read utterance gives, in any of its three forms.
NumberGiven == CHOOSE k \in 1..10 : request[1].command \in NumberForms(k)

\* C16: on a list of two or more entries, a read utterance that gives k in
\* 1..10 as a number word or an ordinal word resolves as the utterance
\* that gives k as digits does, and each of the three forms is the read of
\* position k: one call of the read tool for the id at position k, whose
\* result alone decides the session afterwards, or no call and no change
\* when the list has fewer than k entries.
C16_NumberWordEquivalence ==
    ( /\ IsText /\ ReadsList
      /\ Len(before.email_list) >= 2
      /\ request[1].command \in NumberCommands ) =>
        LET k == NumberGiven
            digits == Text(NumberUtterance(NumberDigits[k]))
            email_id == before.email_list[k].id
            o == tool_calls[1].outcome
            account == IF isdigit(email_id) THEN "icloud" ELSE "gmail"
            stored == [id |-> email_id, account |-> account, list_number |-> k]
                      @@ o.value.dict
        IN  /\ Cmd = parse(digits)
            /\ Cmd.read_email_number = Some(k)
            /\ IF k <= Len(before.email_list)
               THEN /\ Len(tool_calls) = 1
                    /\ tool_calls[1].tool =
                          (IF account = "icloud" THEN "read_icloud_email"
                           ELSE "read_gmail_email")
                    /\ tool_calls[1].kwargs = [email_id |-> email_id]
                    /\ IF ~o.raised /\ o.value.type = "dict" /\ ~IsErrorDict(o.value)
                       THEN After = [before EXCEPT
                                        !.read_emails = (str(k) :> stored) @@ @,
                                        !.last_action_email_num = Some(str(k))]
                       ELSE After = before
               ELSE /\ tool_calls = <<>>
                    /\ After = before
                    /\ response = Some([kind |-> "only_n",
                                        count |-> Len(before.email_list)])

\* C16 witness: position 2 was read from an utterance that gives it as an
\* ordinal word.
C16_Witness ==
    /\ IsText /\ ReadsList
    /\ Len(before.email_list) >= 2
    /\ request[1].command = Text(NumberUtterance(OrdinalWords[2]))
    /\ Len(tool_calls) = 1
    /\ str(2) \in DOMAIN After.read_emails
    /\ After.last_action_email_num = Some(str(2))

\* The last request was passed to the intent classifier.
Deferred == IsText /\ llm_calls # <<>> /\ llm_calls[1].fn = "classify"

\* C17: when the tool call of a classifier decision returns an empty list
\* or an error object, the list, the read messages, the pending draft and
\* the last-touched position are all as they were, and the response is
\* 'no emails' or the error text.
C17_EmptyOrErrorKeepsSession ==
    ( /\ Deferred
      /\ Len(tool_calls) = 1 /\ ReturnedValue(tool_calls[1])
      /\ LET v == tool_calls[1].outcome.value
         IN  (v.type = "list" /\ v.items = <<>>) \/ IsErrorDict(v) ) =>
        /\ After = before
        /\ response = Some(IF tool_calls[1].outcome.value.type = "list"
                           THEN [kind |-> "no_emails"]
                           ELSE [kind |-> "tool_error",
                                 error |-> tool_calls[1].outcome.value.dict.error])

\* C17 witness: a list tool returned an empty list to a session holding a
\* list, a read message, a pending draft and a last-touched position.
C17_Witness ==
    /\ Deferred
    /\ Len(tool_calls) = 1 /\ ReturnedValue(tool_calls[1])
    /\ tool_calls[1].outcome.value.type = "list"
    /\ tool_calls[1].outcome.value.items = <<>>
    /\ before.email_list # <<>>
    /\ before.read_emails # EmptyDict
    /\ before.pending_draft # None
    /\ before.last_action_email_num # None
    /\ response = Some([kind |-> "no_emails"])

\* C18: when the classifier output is text that is not JSON, or a decision
\* whose action is not call_tool, no tool is called, the session is as it
\* was, and the response is the raw classifier text in the first case and
\* the decision's message in the second.
C18_NoToolDecision ==
    ( /\ Deferred
      /\ LET out == llm_calls[1].output
         IN  \/ out.kind = "text"
             \/ /\ out.kind = "decision"
                /\ "action" \in DOMAIN out.decision
                /\ out.decision.action # "call_tool" ) =>
        LET out == llm_calls[1].output
        IN  /\ tool_calls = <<>>
            /\ Len(llm_calls) = 1
            /\ After = before
            /\ response =
                  Some(IF out.kind = "text" THEN [kind |-> "raw", text |-> out.text]
                       ELSE [kind |-> "message",
                             text |-> IF "message" \in DOMAIN out.decision
                                      THEN out.decision.message ELSE "Done!"])

\* C18 witness: a respond decision with a message was answered in a
\* session holding a list, a read message and a pending draft.
C18_Witness ==
    /\ Deferred
    /\ llm_calls[1].output.kind = "decision"
    /\ llm_calls[1].output.decision.action = "respond"
    /\ "message" \in DOMAIN llm_calls[1].output.decision
    /\ before.email_list # <<>>
    /\ before.read_emails # EmptyDict
    /\ before.pending_draft # None
    /\ response = Some([kind |-> "message", text |-> llm_calls[1].output.decision.message])

\* C19: in every state, a session with a pending draft holds in
\* read_emails the message of the position the draft was created for.
C19_DraftIsBacked ==
    \A u \in DOMAIN user_context :
        user_context[u].pending_draft # None =>
            KeyOf(user_context[u].pending_draft[1].for_email_num)
                \in DOMAIN user_context[u].read_emails

\* C19 witness: a draft is still pending, and backed, after a list tool
\* was called and returned nothing to load.
C19_Witness ==
    /\ Deferred
    /\ Len(tool_calls) = 1
    /\ tool_calls[1].tool \in {"list_gmail_emails", "search_icloud"}
    /\ After.pending_draft # None
    /\ KeyOf(After.pending_draft[1].for_email_num) \in DOMAIN After.read_emails

\* The session user u has in user_context, None when u has none yet.
SessionOf(u) == IF u \in DOMAIN user_context THEN Some(user_context[u]) ELSE None

\* C20: a request of one user (an utterance, /clear or /status) leaves the
\* session of every other user as it was, an absent session absent; and
\* the session a request is handled on is the requesting user's own, as
\* user_context held it, so that what another user did in between has no
\* part in the response.
C20_UsersAreIndependent ==
    [][ /\ \A b \in Users2 \ {request'[1].user} : SessionOf(b)' = SessionOf(b)
        /\ before' = (IF request'[1].user \in DOMAIN user_context
                      THEN user_context[request'[1].user]
                      ELSE [email_list |-> <<>>, read_emails |-> <<>>,
                            pending_draft |-> <<>>, last_action_email_num |-> <<>>])
      ]_vars

\* C20 witness: user u2 has loaded a list while user u1 holds another list
\* and a pending draft.
C20_Witness ==
    /\ IsText /\ request[1].user = "u2"
    /\ DOMAIN user_context = {"u1", "u2"}
    /\ user_context["u1"].pending_draft # None
    /\ user_context["u2"].email_list # <<>>
    /\ user_context["u2"].email_list # before.email_list
    /\ user_context["u2"].email_list # user_context["u1"].email_list

\* The session invariants: at most one draft, every key of read_emails a
\* position of the list, a pending draft backed by a read entry.
SessionInvariant(ctx) ==
    /\ Len(ctx.pending_draft) <= 1
    /\ DOMAIN ctx.read_emails \subseteq {str(i) : i \in 1..Len(ctx.email_list)}
    /\ ctx.pending_draft # None =>
          KeyOf(ctx.pending_draft[1].for_email_num) \in DOMAIN ctx.read_emails

\* A collaborator of the last request failed: a tool call raised, the
\* classifier or the reply generator raised, or a read tool returned a
\* value that is no dict.
CollaboratorFailed ==
    \/ \E i \in DOMAIN tool_calls : tool_calls[i].outcome.raised
    \/ \E i \in DOMAIN llm_calls :
          IF llm_calls[i].fn = "classify" THEN llm_calls[i].output.kind = "raised"
          ELSE llm_calls[i].output.raised
    \/ \E i \in DOMAIN tool_calls :
          /\ tool_calls[i].tool \in ReadTools /\ llm_calls = <<>>
          /\ ~tool_calls[i].outcome.raised
          /\ tool_calls[i].outcome.value.type # "dict"

\* The texts process_email_command returns.
ResponseKinds ==
    {"sorry", "send_failed", "sent", "no_draft", "cancelled", "read_error",
     "email_content", "only_n", "specify_number", "read_first", "draft_preview",
     "email_list", "no_emails", "tool_error", "email_sent", "tool_result",
     "message", "raw"}

\* C21: every utterance is answered with a response text, the apology of
\* the except clause when a collaborator failed, and every session
\* satisfies the session invariants afterwards.
C21_NoExceptionEscapes ==
    /\ IsText => response # None /\ response[1].kind \in ResponseKinds
    /\ (IsText /\ CollaboratorFailed) => response = Some([kind |-> "sorry"])
    /\ \A u \in DOMAIN user_context : SessionInvariant(user_context[u])

\* C21 witness: a tool call raised in a session holding a list, read
\* messages and a pending draft, and was answered with the apology.
C21_Witness ==
    /\ IsText
    /\ tool_calls # <<>> /\ tool_calls[1].outcome.raised
    /\ before.pending_draft # None
    /\ After.pending_draft # None
    /\ Cardinality(DOMAIN After.read_emails) >= 2
    /\ response = Some([kind |-> "sorry"])

\* The value of a session nothing has been done in.
FreshSession ==
    [email_list |-> <<>>, read_emails |-> <<>>,
     pending_draft |-> <<>>, last_action_email_num |-> <<>>]

\* C22: no session exists before the first request; a user's first request
\* is handled on a fresh session, which user_context holds from then on;
\* no request removes a session, and no utterance turns a session that is
\* not fresh into a fresh one; /clear leaves exactly the fresh session, the
\* value a first request starts from.
C22_SessionLifetime ==
    [][ LET u == request'[1].user
        IN  /\ request = None => DOMAIN user_context = {}
            /\ DOMAIN user_context' = DOMAIN user_context \cup {u}
            /\ u \notin DOMAIN user_context => before' = FreshSession
            /\ u \in DOMAIN user_context => before' = user_context[u]
            /\ (request'[1].handler = "text" /\ before' # FreshSession) =>
                  user_context'[u] # FreshSession
            /\ request'[1].handler = "clear" => user_context'[u] = FreshSession
      ]_vars

\* C22 witness: /clear has reset a session that held a list, a read
\* message and a pending draft.
C22_Witness ==
    /\ request # None /\ request[1].handler = "clear"
    /\ before.email_list # <<>>
    /\ before.read_emails # EmptyDict
    /\ before.pending_draft # None
    /\ After = FreshSession

\* 'read email number 5' arrived in a session without a list.
FreshRead5 ==
    /\ IsText
    /\ request[1].command = Text(NumberUtterance("5"))
    /\ before.email_list = <<>>

\* C23 (as stated): in a session without a list, 'read email number 5'
\* calls no read tool, and read_emails stays empty and the last-touched
\* position null, whatever the intent classifier answers.
C23_FreshReadCallsNoReadTool ==
    FreshRead5 =>
        /\ \A i \in DOMAIN tool_calls : tool_calls[i].tool \notin ReadTools
        /\ After.read_emails = EmptyDict
        /\ After.last_action_email_num = None

\* C23 (amended): in a session without a list, 'read email number 5' is
\* not handled as a local read but passed to the intent classifier; the
\* only tool call made is the one the classifier's decision names, a read
\* tool included, and whatever it returns read_emails stays empty and the
\* last-touched position null.
C23_FreshReadIsDeferred ==
    FreshRead5 =>
        /\ Len(llm_calls) = 1
        /\ llm_calls[1].fn = "classify"
        /\ llm_calls[1].command = Text(NumberUtterance("5"))
        /\ response[1].kind \notin
              {"email_content", "read_error", "only_n", "specify_number"}
        /\ \A i \in DOMAIN tool_calls :
              /\ llm_calls[1].output.kind = "decision"
              /\ llm_calls[1].output.decision.action = "call_tool"
              /\ tool_calls[i].tool = llm_calls[1].output.decision.tool
              /\ tool_calls[i].kwargs = llm_calls[1].output.decision.params
        /\ Len(tool_calls) <= 1
        /\ After.read_emails = EmptyDict
        /\ After.last_action_email_num = None

\* C23 witness: the classifier named a read tool for the utterance, the
\* tool returned a message, and nothing was stored.
C23_Witness ==
    /\ FreshRead5
    /\ Len(tool_calls) = 1 /\ tool_calls[1].tool \in ReadTools
    /\ ReturnedValue(tool_calls[1])
    /\ tool_calls[1].outcome.value.type = "dict"
    /\ ~IsErrorDict(tool_calls[1].outcome.value)
    /\ After.read_emails = EmptyDict
    /\ response[1].kind = "tool_result"

\* C24 (as stated): a call_tool made while the client is not connected,
\* that is before __aenter__ has completed or after __aexit__ has run,
\* raises RuntimeError and issues no call on a session.
C24_UnconnectedCallRaises ==
    \A i \in DOMAIN mcp_log :
        (mcp_log[i].event = "call_tool" /\ mcp_log[i].at \in {"new", "failed", "done"}) =>
            /\ ~mcp_log[i].issued
            /\ mcp_log[i].outcome = [raised |-> TRUE, error |-> "RuntimeError"]

\* What was done with the transport and the session, calls of tools left
\* out.
LifeSteps == SelectSeq(mcp_log, LAMBDA e : e.event # "call_tool")

ExistingIds(box) == {box[i].id : i \in 1..Len(box)}

C26_DraftToolReturnsDraft ==
    \A i \in DOMAIN tool_calls :
        LET c == tool_calls[i]
        IN  (/\ c.tool \in {"draft_gmail_reply", "draft_icloud_reply"}
             /\ "email_id" \in DOMAIN c.kwargs
             /\ c.kwargs.email_id \in
                   (IF c.tool = "draft_gmail_reply" THEN ExistingIds(GmailBox)
                                                    ELSE ExistingIds(ICloudBox))
             /\ ~c.outcome.raised
             /\ c.outcome.value.type = "dict") =>
                /\ "error" \notin DOMAIN c.outcome.value.dict
                /\ {"status", "to", "subject", "body"} \subseteq DOMAIN c.outcome.value.dict
                /\ c.outcome.value.dict.status = "draft_created"

\* ------------------------------------------------------------------------
\* C27: intent resolution is first-match-wins in the order send, cancel,
\* read, draft, defer: exactly one of the five actions is taken per
\* utterance, the earliest one whose intent the utterance matches; with a
\* pending draft an utterance with 'cancel' and a send phrase sends the
\* draft, and an utterance with a send phrase and 'read' never reads.
\* ------------------------------------------------------------------------
\* The intents the utterance matches in the session it arrived in, by
\* their place in the order send, cancel, read, draft, defer.
MatchedIntents ==
    LET p == parse(request[1].command)
    IN  {i \in 1..5 :
            \/ i = 1 /\ p.is_send
            \/ i = 2 /\ p.has_cancel /\ before.pending_draft # None
            \/ i = 3 /\ p.is_read /\ before.email_list # <<>>
            \/ i = 4 /\ p.is_draft
            \/ i = 5}


\* The actions whose effects the handled utterance shows.
TakenActions ==
    LET kind == response[1].kind
        failed == kind = "sorry"
    IN  {i \in 1..5 :
            \/ /\ i = 1
               /\ llm_calls = <<>>
               /\ \/ kind \in {"sent", "send_failed"} /\ Len(tool_calls) = 1
                     /\ tool_calls[1].tool \in SendTools
                  \/ kind = "no_draft" /\ tool_calls = <<>>
                  \/ failed /\ Len(tool_calls) = 1 /\ tool_calls[1].tool \in SendTools
            \/ /\ i = 2
               /\ kind = "cancelled" /\ tool_calls = <<>> /\ llm_calls = <<>>
            \/ /\ i = 3
               /\ llm_calls = <<>>
               /\ \/ kind \in {"email_content", "read_error"} /\ Len(tool_calls) = 1
                     /\ tool_calls[1].tool \in ReadTools
                  \/ kind \in {"only_n", "specify_number"} /\ tool_calls = <<>>
                  \/ failed /\ Len(tool_calls) = 1 /\ tool_calls[1].tool \in ReadTools
            \/ /\ i = 4
               /\ tool_calls = <<>>
               /\ \/ kind = "read_first" /\ llm_calls = <<>>
                  \/ kind \in {"draft_preview", "sorry"} /\ Len(llm_calls) = 1
                     /\ llm_calls[1].fn = "generate_reply_body"
            \/ /\ i = 5
               /\ llm_calls # <<>> /\ llm_calls[1].fn = "classify"}

C27_FirstMatchWins ==
    IsText =>
        /\ \E i \in MatchedIntents :
              /\ \A j \in MatchedIntents : i <= j
              /\ TakenActions = {i}
        /\ parse(request[1].command).is_send =>
              \A k \in DOMAIN tool_calls : tool_calls[k].tool \notin ReadTools

\* C27 witness: with a draft pending, 'yes cancel' sent the draft.
C27_Witness ==
    /\ IsText
    /\ request[1].command = Text(<<"yes", "cancel">>)
    /\ before.pending_draft # None
    /\ response[1].kind = "sent"
    /\ Len(tool_calls) = 1
    /\ tool_calls[1].tool \in SendTools
    /\ After.pending_draft = None

\* ------------------------------------------------------------------------
\* C28: with a pending draft, an utterance that holds a confirmation
\* phrase only as part of a longer word ('yes' in 'yesterday', 'confirm' in
\* 'confirmation') does not call the send tool and leaves pending_draft
\* unchanged.
\* ------------------------------------------------------------------------
PartOfLongerWord == {Text(<<"yesterday">>), Text(<<"confirmation">>)}

C28_SendNeedsWholeWords ==
    (/\ IsText
     /\ request[1].command \in PartOfLongerWord
     /\ before.pending_draft # None) =>
        /\ \A k \in DOMAIN tool_calls : tool_calls[k].tool \notin SendTools
        /\ After.pending_draft = before.pending_draft

\* ------------------------------------------------------------------------
\* C29: a read utterance on a list of two or more messages from which no
\* number can be resolved is answered with the request to specify a
\* number; neither the intent classifier nor a mail tool is called and the
\* session is left as it was.
\* ------------------------------------------------------------------------
UnnumberedRead ==
    /\ IsText
    /\ LET p == parse(request[1].command)
       IN  /\ p.is_read /\ ~p.is_send
           /\ ~(p.has_cancel /\ before.pending_draft # None)
           /\ p.read_email_number = None
    /\ Len(before.email_list) >= 2

C29_UnnumberedReadAsksForNumber ==
    UnnumberedRead =>
        /\ response = Some([kind |-> "specify_number"])
        /\ tool_calls = <<>>
        /\ llm_calls = <<>>
        /\ After = before

\* C29 witness: 'read it' arrived in a session with a list of two messages,
\* a read message and a pending draft.
C29_Witness ==
    /\ UnnumberedRead
    /\ request[1].command = Text(<<"read", "it">>)
    /\ before.read_emails # EmptyDict
    /\ before.pending_draft # None
    /\ response = Some([kind |-> "specify_number"])

\* ------------------------------------------------------------------------
\* C30: a draft utterance that names its target only by an ordinal word
\* without 'email', 'number', 'mail' or '#' before it ('draft a reply for
\* the second one'), where that position has been read, creates the draft
\* for that position and not for last_action_email_num.
\* ------------------------------------------------------------------------
C30_OrdinalWordNamesTarget ==
    (/\ IsText
     /\ request[1].command = Text(<<"draft", "a", "reply", "for", "the", "second", "one">>)
     /\ str(2) \in DOMAIN before.read_emails
     /\ response[1].kind = "draft_preview") =>
        /\ After.pending_draft # None
        /\ After.pending_draft[1].for_email_num \in {PyInt(2), PyStr(str(2))}
        /\ After.pending_draft[1].to = parse_recipient(before.read_emails[str(2)].from)

\* ------------------------------------------------------------------------
\* C31: every raw utterance that contains one of the drafting verbs
\* 'draft', 'reply to', 'respond to', 'write back' or 'compose', with no
\* send phrase, no pending draft to cancel and no read, is handled as a
\* draft request and never passed to the intent classifier.
\* ------------------------------------------------------------------------
RawDraftingVerb ==
    /\ IsText
    /\ ContainsAny(lower(request[1].command),
                   { <<"draft">>, <<"reply", "to">>, <<"respond", "to">>,
                     <<"write", "back">>, <<"compose">> })
    /\ LET p == parse(request[1].command)
       IN  /\ ~p.is_send
           /\ ~(p.has_cancel /\ before.pending_draft # None)
           /\ ~(p.is_read /\ before.email_list # <<>>)

C31_DraftingVerbIsDraftIntent ==
    RawDraftingVerb =>
        /\ \A k \in DOMAIN llm_calls : llm_calls[k].fn # "classify"
        /\ tool_calls = <<>>
        /\ response[1].kind \in {"read_first", "draft_preview", "sorry"}

\* ------------------------------------------------------------------------
\* C32: a read of position n is sent to the provider whose list or search
\* call produced email_list[n]; no summary produced by the REST (Gmail)
\* provider is read through the IMAP (iCloud) tool, and none produced by
\* the IMAP provider through the REST tool.
\* ------------------------------------------------------------------------
GmailSummaries == {Summary(GmailBox[i]) : i \in 1..Len(GmailBox)}
ICloudSummaries == {Summary(ICloudBox[i]) : i \in 1..Len(ICloudBox)}

C32_ReadGoesToListingProvider ==
    (IsText /\ llm_calls = <<>>) =>
        \A k \in DOMAIN tool_calls :
            tool_calls[k].tool \in ReadTools =>
                \A n \in 1..Len(before.email_list) :
                    LET summary == before.email_list[n]
                    IN  summary.id = tool_calls[k].kwargs.email_id =>
                            /\ summary \in GmailSummaries =>
                                  tool_calls[k].tool = "read_gmail_email"
                            /\ summary \in ICloudSummaries =>
                                  tool_calls[k].tool = "read_icloud_email"

\* ------------------------------------------------------------------------
\* C33: a pending draft is sent through the provider that served the read
\* of the message it replies to: the account stored with the message at
\* read time is the one of the read tool called, the draft takes the account
\* of the message it is made from, and a confirmation calls the send tool
\* of the draft's account.
\* ------------------------------------------------------------------------
ProviderOf(tool) ==
    IF tool \in {"read_icloud_email", "send_icloud_email"} THEN "icloud" ELSE "gmail"

C33_SendThroughReadProvider ==
    /\ \* read time
       (/\ IsText /\ llm_calls = <<>> /\ response[1].kind = "email_content"
        /\ Len(tool_calls) = 1 /\ tool_calls[1].tool \in ReadTools) =>
            LET n == After.last_action_email_num[1]
            IN  After.read_emails[n].account = ProviderOf(tool_calls[1].tool)
    /\ \* draft time, and every later state of the session
       \A u \in DOMAIN user_context :
           LET ctx == user_context[u]
           IN  ctx.pending_draft # None =>
                   ctx.pending_draft[1].account =
                       ctx.read_emails[KeyOf(ctx.pending_draft[1].for_email_num)].account
    /\ \* confirmation time
       (/\ IsText /\ llm_calls = <<>> /\ before.pending_draft # None
        /\ tool_calls # <<>> /\ tool_calls[1].tool \in SendTools) =>
            /\ Len(tool_calls) = 1
            /\ ProviderOf(tool_calls[1].tool) = before.pending_draft[1].account
            /\ ProviderOf(tool_calls[1].tool) =
                   before.read_emails[KeyOf(before.pending_draft[1].for_email_num)].account

\* C33 witness: a draft made from a message read through the iCloud tool
\* was sent through the iCloud send tool.
C33_Witness ==
    /\ IsText
    /\ before.pending_draft # None
    /\ before.pending_draft[1].account = "icloud"
    /\ Len(tool_calls) = 1
    /\ tool_calls[1].tool = "send_icloud_email"
    /\ response[1].kind = "sent"
    /\ After.pending_draft = None

\* ------------------------------------------------------------------------
\* C34: when two confirmation utterances of one user overlap at the send
\* call, both pass the pending-draft test before either clears the draft,
\* and the same draft is passed to the send tool twice; when requests are
\* handled one at a time each draft is passed to the send tool at most once.
\* ------------------------------------------------------------------------
C34_OneSendPerDraftInTurn ==
    ~overlapped => Len(draft_sends) <= 1

\* C34 as the code has it: handled one at a time, a draft is passed to the
\* send tool again only after every earlier send call for it raised, never
\* after one has returned.
C34_NoSendAfterReturnInTurn ==
    ~overlapped =>
        \A k \in DOMAIN draft_sends : k < Len(draft_sends) => draft_sends[k] = "raised"

\* C34 witness: two overlapping confirmations passed the same draft to the
\* send tool, and both calls have returned.
C34_Witness ==
    /\ overlapped
    /\ draft_sends = <<"returned", "returned">>
    /\ in_flight = <<>>
    /\ \A u \in DOMAIN user_context : user_context[u].pending_draft = None

\* ------------------------------------------------------------------------
\* C36: the server's call_tool never raises: whatever the tool name and the
\* argument map, a call the server handled is answered with exactly one text
\* content holding JSON, never with an exception; and for an unknown tool
\* name, a missing required argument or a handler that raises (the draft
\* tools), the JSON is an object with an "error" key.
\* ------------------------------------------------------------------------
RoutedTools ==
    {"list_gmail_emails", "list_icloud_emails", "read_gmail_email",
     "read_icloud_email", "send_gmail_email", "send_icloud_email",
     "search_gmail", "search_icloud", "draft_gmail_reply", "draft_icloud_reply"}

RequiredArguments(name) ==
    CASE name \in {"read_gmail_email", "read_icloud_email"} -> {"email_id"}
      [] name \in {"send_gmail_email", "send_icloud_email"} -> {"to", "subject", "body"}
      [] name = "search_gmail" -> {"query"}
      [] name = "search_icloud" -> {"sender"}
      [] name \in {"draft_gmail_reply", "draft_icloud_reply"} -> {"email_id", "reply_body"}
      [] OTHER -> {}

HandledCalls ==
    {i \in DOMAIN mcp_log :
        mcp_log[i].event = "call_tool" /\ mcp_log[i].issued /\ mcp_log[i].at = "body"
        /\ mcp_log[i].content # None}

C36_CallToolAlwaysOneJsonText ==
    \A i \in HandledCalls :
        LET e == mcp_log[i]
            contents == e.content[1]
        IN  /\ Len(contents) = 1
            /\ contents[1].type = "text"
            /\ DOMAIN contents[1].text = {"json"}
            /\ ~e.outcome.raised
            /\ e.outcome.value = contents[1].text.json
            /\ (\/ e.tool \notin RoutedTools
                \/ ~(RequiredArguments(e.tool) \subseteq DOMAIN e.kwargs)
                \/ e.tool \in {"draft_gmail_reply", "draft_icloud_reply"})
               => IsErrorDict(contents[1].text.json)

C36_Witness ==
    /\ \E i \in HandledCalls :
          mcp_log[i].tool = "delete_email" /\ IsErrorDict(mcp_log[i].outcome.value)
    /\ \E i \in HandledCalls :
          /\ mcp_log[i].tool = "read_gmail_email" /\ mcp_log[i].kwargs = EmptyDict
          /\ IsErrorDict(mcp_log[i].outcome.value)

\* ------------------------------------------------------------------------
\* C37: iCloudHandler.list_emails and search_emails_by_sender return at
\* most max_results summaries for every max_results >= 0, zero included.
\* ------------------------------------------------------------------------
C37_ICloudListAtMostMaxResults ==
    \A i \in HandledCalls :
        LET e == mcp_log[i]
        IN  (/\ e.tool \in {"list_icloud_emails", "search_icloud"}
             /\ "max_results" \in DOMAIN e.kwargs
             /\ e.kwargs.max_results >= 0
             /\ e.outcome.value.type = "list")
            => Len(e.outcome.value.items) <= e.kwargs.max_results

\* ------------------------------------------------------------------------
\* C38: with requests handled one at a time, in every state and every
\* session each key of read_emails is a position of email_list, the message
\* stored at a position has the id email_list holds at that position, and
\* last_action_email_num is null or a key of read_emails.
\* ------------------------------------------------------------------------
C38_ReadsMatchList ==
    \A u \in DOMAIN user_context :
        LET ctx == user_context[u]
        IN  /\ \A k \in DOMAIN ctx.read_emails :
                  \E n \in 1..Len(ctx.email_list) :
                      /\ k = str(n)
                      /\ ctx.read_emails[k].id = ctx.email_list[n].id
            /\ \/ ctx.last_action_email_num = None
               \/ ctx.last_action_email_num[1] \in DOMAIN ctx.read_emails

\* C38 witness: a second position has just been read and stored in a
\* session that already held a read message.
C38_Witness ==
    /\ IsText
    /\ Len(tool_calls) = 1 /\ tool_calls[1].tool \in ReadTools
    /\ before.read_emails # EmptyDict
    /\ Cardinality(DOMAIN After.read_emails) > Cardinality(DOMAIN before.read_emails)
    /\ After.last_action_email_num # before.last_action_email_num
    /\ After.last_action_email_num[1] \in DOMAIN After.read_emails

ReadRequest ==
    /\ IsText
    /\ \/ tool_calls # <<>> /\ tool_calls[1].tool \in ReadTools
       \/ response[1].kind \in {"email_content", "read_error", "only_n", "specify_number"}

ChangesDraft == request # None /\ After.pending_draft # before.pending_draft

C40_ReadKeepsPendingDraft ==
    /\ ReadRequest => After.pending_draft = before.pending_draft
    /\ (IsText /\ tool_calls # <<>> /\ tool_calls[1].tool \in SendTools /\ ~Deferred) =>
          /\ before.pending_draft # None
          /\ tool_calls[1].tool =
                (IF before.pending_draft[1].account = "icloud"
                 THEN "send_icloud_email" ELSE "send_gmail_email")
          /\ tool_calls[1].kwargs = [to |-> before.pending_draft[1].to,
                                     subject |-> before.pending_draft[1].subject,
                                     body |-> before.pending_draft[1].body]
    /\ ChangesDraft =>
          \/ request[1].handler = "clear"
          \/ response[1].kind = "draft_preview" /\ After.pending_draft # None
          \/ response[1].kind \in {"sent", "send_failed"} /\ After.pending_draft = None
          \/ response[1].kind = "cancelled" /\ After.pending_draft = None
          \/ /\ response[1].kind = "email_list"
             /\ After.pending_draft = None
             /\ After.email_list # <<>>
             /\ tool_calls # <<>> /\ ~tool_calls[1].outcome.raised
             /\ tool_calls[1].outcome.value = PyList(After.email_list)

\* C40 witness: while a draft made for one position is pending, another
\* position is read and stored; the draft is still the one that was pending
\* and the position touched last is no longer the draft's.
C40_Witness ==
    /\ IsText
    /\ response[1].kind = "email_content"
    /\ Len(tool_calls) = 1 /\ tool_calls[1].tool \in ReadTools
    /\ before.pending_draft # None
    /\ After.pending_draft = before.pending_draft
    /\ before.last_action_email_num = Some(KeyOf(before.pending_draft[1].for_email_num))
    /\ After.last_action_email_num # before.last_action_email_num
    /\ After.last_action_email_num[1] \in DOMAIN After.read_emails
=============================================================================
